---------------------------- MODULE Spec2Model ----------------------------
(***************************************************************************)
(* Model of the sleep-entry repository of the sleep tracker: the two       *)
(* useSleepStorage hooks of src/hooks/useSleepStorage.ts (the local        *)
(* AsyncStorage variant, lines 1-281, and the remote Supabase variant,     *)
(* lines 283-592) and the time utilities they share.                       *)
(*                                                                         *)
(* One instance of a hook is modelled, over its backend.  In Spec every     *)
(* call runs to completion before the next one starts and is made through  *)
(* the callbacks of the latest render, so that it reads the current state. *)
(*                                                                         *)
(* Instants are milliseconds since the epoch, as Date.getTime() gives      *)
(* them.  A duration, which the code keeps as a number of hours with one   *)
(* decimal (Math.round(x * 10) / 10), is kept here as the integer number   *)
(* of tenths of an hour, Math.round(x * 10).                               *)
(*                                                                         *)
(* Further specifications: SpecDur (calculateDuration alone), SpecStats    *)
(* (getWeeklyStats alone), SpecPair (the two hooks side by side),          *)
(* SpecSettings and SpecSettingsRace (the hook useUserSettings of          *)
(* src/types/auth.ts with the reminder service of                          *)
(* src/services/notifications.ts, one instance and two), SpecFmt           *)
(* (formatDuration alone), SpecDetail (the hooks with the save of the      *)
(* sleep-detail screen), SpecRace (a hook whose calls overlap) and         *)
(* SpecSettingsOverlap (useUserSettings with overlapping updates).         *)
(***************************************************************************)
EXTENDS Integers, Sequences, FiniteSets, TLC

VARIABLES
    variant,    \* which hook this instance is: "local" or "remote"
    mounted,    \* the mount effect has run
    user,       \* useAuth().user of the remote hook: NoUser or a user id
    entries,    \* useState<SleepEntry[]>: the in-memory snapshot
    loading,    \* useState(true)
    error,      \* useState<string | null>(null)
    storage,    \* AsyncStorage item STORAGE_KEY: Null or the stored JSON array
    db,         \* rows of the Supabase table sleep_entries
    nextId,     \* number of ids handed out so far (generateId / the table's id)
    last,       \* the last call that completed: its name, id argument, outcome
    cleared,    \* "no", or what the last successful clearAll found in the backend
                \* ("empty", "nonempty") when no add was called since
    dBed,       \* calculateDuration under test: bedtime argument
    dWake,      \* calculateDuration under test: wakeTime argument
    dRes,       \* calculateDuration under test: result (Undefined before the call)
    now,        \* getWeeklyStats under test: the instant new Date() gives
    tz,         \* getWeeklyStats under test: local time minus UTC, in ms
    stats,      \* getWeeklyStats under test: result (Undefined before the call)
    peer,       \* the two variants side by side: the remote hook's snapshot and
                \* the outcome of its last call (the local hook is in entries, last)
    settingsDb, \* rows of the Supabase table user_settings
    hooks,      \* the mounted instances of useUserSettings: state, call in flight
    scheduled,  \* the notifications the device holds scheduled
    clock,      \* number of updated_at stamps taken so far
    fHours,     \* formatDuration under test: its argument, in hundredths of an hour
    fRes,       \* formatDuration under test: result (Undefined before the call)
    flight      \* the calls of a hook that wait at an await, and whether a
                \* backend call of the instance has failed

vars == <<variant, mounted, user, entries, loading, error, storage, db,
          nextId, last, cleared, dBed, dWake, dRes, now, tz, stats, peer,
          settingsDb, hooks, scheduled, clock, fHours, fRes, flight>>

hookVars == <<variant, mounted, user, entries, loading, error, storage, db,
              nextId, last, cleared>>

durVars == <<dBed, dWake, dRes>>

statVars == <<now, tz, stats>>

settingsVars == <<settingsDb, hooks, scheduled, clock>>

fmtVars == <<fHours, fRes>>

\* what the calls of the entry hooks leave alone
besideHook == <<durVars, statVars, peer, settingsVars, fmtVars, flight>>

-----------------------------------------------------------------------------
(* Bounds of the model.                                                    *)

\* ids that generateId / the database hand out: at most MaxIds adds
MaxIds == 2
\* bedtimes offered to add and update: the evenings of days 1..MaxBed
MaxBed == 2
\* calculateDuration is tried on instants half * 12 h + tick * 90 s
MaxHalfDay == 4
MaxTick == 6
\* getWeeklyStats is tried on snapshots of at most MaxStatEntries entries
MaxStatEntries == 2
\* formatDuration is tried on durations below MaxFmtHours + 1 hours
MaxFmtHours == 9
\* the table user_settings takes at most MaxRows rows
MaxRows == 2
\* at most MaxStamps calls of updateSettings take an updated_at stamp
MaxStamps == 2
\* calls of one entry hook that can wait for their backend at the same time
MaxFlight == 2

-----------------------------------------------------------------------------
(* JavaScript values.                                                      *)

\* An optional value is undefined, null or a value v
Undefined == [t |-> "undefined"]
Null == [t |-> "null"]
Val(v) == [t |-> "val", v |-> v]
\* a string (sequence of characters) or a number that is falsy: undefined,
\* null, the empty string, 0
FalsyStr(x) == x.t # "val" \/ x.v = <<>>
FalsyNum(x) == x.t # "val" \/ x.v = 0
NoUser == "null"
NoError == "null"
\* the remote hook run beside the local one, before its first call
NoPeer == [entries |-> <<>>, res |-> "void"]
\* no call of formatDuration is under test
NoFormat == fHours = 0 /\ fRes = Undefined
\* no call of the entry hook waits for its backend
NoCall == [op |-> "none", pc |-> "idle", id |-> 0, seen |-> <<>>, data |-> <<>>,
           res |-> "none"]
NoFlight == [calls |-> [k \in 1..MaxFlight |-> NoCall], failed |-> FALSE]
\* no instance of useUserSettings is mounted
NoSettings == settingsDb = {} /\ hooks = <<>> /\ scheduled = {} /\ clock = 0

HourMs == 1000 * 60 * 60
DayMs == 24 * 60 * 60 * 1000
TickMs == 90 * 1000

\* Math.round for a quotient num / den with den > 0: the nearest integer,
\* a tie going up (towards +Infinity).  \div is the floor of the quotient.
RoundDiv(num, den) == (2 * num + den) \div (2 * den)

-----------------------------------------------------------------------------
(* Time utilities.                                                         *)

calculateDurationWrapEq(bedtime, wakeTime) ==
    LET diff0 == wakeTime - bedtime
        diff == IF diff0 <= 0 THEN diff0 + DayMs ELSE diff0
    IN  RoundDiv(diff, HourMs \div 10)
\* calculateDuration, in tenths of an hour
calculateDuration(bedtime, wakeTime) ==
    LET diff0 == wakeTime - bedtime
        diff == IF diff0 < 0 THEN diff0 + DayMs ELSE diff0
    IN  RoundDiv(diff, HourMs \div 10)

\* Date.prototype.toISOString: the UTC calendar day and the time within it,
\* to the millisecond ("YYYY-MM-DDTHH:mm:ss.sssZ").  The day is kept as the
\* day number since the epoch.
toISOString(t) == <<t \div DayMs, (t % DayMs) \div 1000, t % 1000>>
\* new Date(isoString).getTime()
getTime(iso) == iso[1] * DayMs + iso[2] * 1000 + iso[3]

\* String.prototype.trim on a string kept as a sequence of characters
RECURSIVE TrimStart(_)
TrimStart(s) == IF s # <<>> /\ Head(s) = " " THEN TrimStart(Tail(s)) ELSE s
RECURSIVE TrimEnd(_)
TrimEnd(s) ==
    IF s # <<>> /\ s[Len(s)] = " " THEN TrimEnd(SubSeq(s, 1, Len(s) - 1)) ELSE s
trim(s) == TrimEnd(TrimStart(s))

\* note?.trim()
OptTrim(note) == IF note.t = "val" THEN Val(trim(note.v)) ELSE Undefined

\* x || orElse, for a string and for a number
StrOr(x, orElse) == IF FalsyStr(x) THEN orElse ELSE x
NumOr(x, orElse) == IF FalsyNum(x) THEN orElse ELSE x

-----------------------------------------------------------------------------
(* Entries, their stored forms, and the order of the snapshot.             *)

Range(s) == {s[i] : i \in 1..Len(s)}
Ids(s) == {s[i].id : i \in 1..Len(s)}

\* entries.findIndex(e => e.id === id): 0 stands for JavaScript's -1
findIndex(s, id) ==
    IF id \in Ids(s) THEN CHOOSE i \in 1..Len(s) :
                              s[i].id = id /\ \A j \in 1..(i - 1) : s[j].id # id
    ELSE 0

\* entries.filter(e => e.id !== id)
RECURSIVE filterOut(_, _)
filterOut(s, id) ==
    IF s = <<>> THEN <<>>
    ELSE IF Head(s).id = id THEN filterOut(Tail(s), id)
    ELSE <<Head(s)>> \o filterOut(Tail(s), id)

\* prev.map(e => e.id === id ? updatedEntry : e)
mapReplace(s, id, updatedEntry) ==
    [i \in 1..Len(s) |-> IF s[i].id = id THEN updatedEntry ELSE s[i]]

\* a.sort((a, b) => new Date(b.bedtime).getTime() - new Date(a.bedtime).getTime()):
\* Array.prototype.sort is stable, so entries of equal bedtime keep their order.
InsertDesc(s, e) ==
    LET later == {i \in 1..Len(s) : getTime(s[i].bedtime) < getTime(e.bedtime)}
        at == IF later = {} THEN Len(s) + 1
              ELSE CHOOSE i \in later : \A j \in later : i <= j
    IN  SubSeq(s, 1, at - 1) \o <<e>> \o SubSeq(s, at, Len(s))
RECURSIVE sortDesc(_)
sortDesc(s) ==
    IF s = <<>> THEN <<>>
    ELSE InsertDesc(sortDesc(SubSeq(s, 1, Len(s) - 1)), s[Len(s)])

\* JSON.stringify(entries) and JSON.parse(data): the array of the objects'
\* values in key order; a key whose value is undefined is left out and reads
\* back as undefined.
stringify(s) ==
    [i \in 1..Len(s) |-> <<s[i].id, s[i].bedtime, s[i].wakeTime, s[i].duration,
                           s[i].note, s[i].quality>>]
parse(data) ==
    [i \in 1..Len(data) |->
        [id |-> data[i][1], bedtime |-> data[i][2], wakeTime |-> data[i][3],
         duration |-> data[i][4], note |-> data[i][5], quality |-> data[i][6]]]

\* toSleepEntry: a database row as an app entry
toSleepEntry(dbEntry) ==
    [id |-> dbEntry.id, bedtime |-> dbEntry.bedtime, wakeTime |-> dbEntry.wake_time,
     duration |-> dbEntry.duration, note |-> StrOr(dbEntry.note, Undefined),
     quality |-> NumOr(dbEntry.quality, Undefined)]

\* the entry addEntry and updateEntry of the local hook build
LocalEntrySwapped(id, bedtime, wakeTime, note) ==
    [id |-> id, bedtime |-> toISOString(bedtime), wakeTime |-> toISOString(wakeTime),
     duration |-> calculateDuration(wakeTime, bedtime),
     note |-> StrOr(OptTrim(note), Undefined), quality |-> Undefined]
LocalEntry(id, bedtime, wakeTime, note) ==
    [id |-> id, bedtime |-> toISOString(bedtime), wakeTime |-> toISOString(wakeTime),
     duration |-> calculateDuration(bedtime, wakeTime),
     note |-> StrOr(OptTrim(note), Undefined), quality |-> Undefined]

\* the column values addEntry and updateEntry of the remote hook send
RemoteColumns(bedtime, wakeTime, note, quality) ==
    [bedtime |-> toISOString(bedtime), wake_time |-> toISOString(wakeTime),
     duration |-> calculateDuration(bedtime, wakeTime),
     note |-> StrOr(OptTrim(note), Null), quality |-> NumOr(quality, Null)]

\* a row of sleep_entries
Row(id, uid, c) ==
    [id |-> id, user_id |-> uid, bedtime |-> c.bedtime, wake_time |-> c.wake_time,
     duration |-> c.duration, note |-> c.note, quality |-> c.quality]

\* .select('*').eq('user_id', uid).order('bedtime', { ascending: false }): every
\* listing of the user's rows by descending bedtime (rows of equal bedtime come
\* in an order the database chooses)
SelectOrdered(uid) ==
    LET rows == {r \in db : r.user_id = uid}
        n == Cardinality(rows)
    IN  {s \in [1..n -> rows] :
            /\ \A i, j \in 1..n : i # j => s[i] # s[j]
            /\ \A i \in 1..(n - 1) : getTime(s[i].bedtime) >= getTime(s[i + 1].bedtime)}

-----------------------------------------------------------------------------
(* Inputs of the calls.                                                    *)

\* the bedtimes offered: 22:00 on the days 1..MaxBed
BedTimes == {d * DayMs + 22 * HourMs : d \in 1..MaxBed}

\* what a caller supplies besides the bedtime: the wake time as an offset from
\* the bedtime (7.5 h later, or 06:00 of the bedtime's own calendar day, 16 h
\* earlier), a note and a quality
Forms ==
    { [off |-> (15 * HourMs) \div 2, note |-> Undefined, quality |-> Undefined],
      [off |-> 0 - 16 * HourMs, note |-> Val(<<" ", "n", " ">>), quality |-> Val(4)],
      [off |-> (15 * HourMs) \div 2, note |-> Val(<<" ">>), quality |-> Val(0)] }

\* how a call to the backend can end: it succeeds, or it fails and nothing is
\* written
Outcomes == {"ok", "rejected"}

\* the call that completes: its name, its id argument, what it gave its caller
\* and how its call to the backend ended ("none": it made no such call)
Done(op, id, res, backend) ==
    last' = [op |-> op, id |-> id, res |-> res, backend |-> backend]

-----------------------------------------------------------------------------
(* The local hook (AsyncStorage).                                          *)

\* how loadEntries can end: getItem resolves and the text parses, getItem
\* rejects, or there is a stored text and JSON.parse throws on it
LocalLoadOutcomes ==
    {"ok", "rejected"} \cup (IF storage.t = "val" THEN {"unparsable"} ELSE {})

\* loadEntries
LocalLoadBodyClears(outcome) ==
    /\ IF outcome = "ok"
       THEN /\ entries' = IF storage.t = "val" THEN sortDesc(parse(storage.v))
                          ELSE <<>>
            /\ error' = NoError
            /\ Done("load", 0, "ok", outcome)
       ELSE /\ error' = "Failed to load sleep data"
            /\ Done("load", 0, "fail", outcome)
            /\ entries' = <<>>
    /\ loading' = FALSE
    /\ UNCHANGED <<storage, db, nextId, cleared>>
LocalLoadBody(outcome) ==
    /\ IF outcome = "ok"
       THEN /\ entries' = IF storage.t = "val" THEN sortDesc(parse(storage.v))
                          ELSE <<>>
            /\ error' = NoError
            /\ Done("load", 0, "ok", outcome)
       ELSE /\ error' = "Failed to load sleep data"
            /\ Done("load", 0, "fail", outcome)
            /\ UNCHANGED entries
    /\ loading' = FALSE
    /\ UNCHANGED <<storage, db, nextId, cleared>>

\* useEffect(() => { loadEntries(); }, [])
LocalMount ==
    /\ variant = "local" /\ ~mounted
    /\ mounted' = TRUE
    /\ \E outcome \in LocalLoadOutcomes : LocalLoadBody(outcome)
    /\ UNCHANGED <<variant, user>>

\* refresh: loadEntries
LocalLoadEntries ==
    /\ variant = "local" /\ mounted
    /\ \E outcome \in LocalLoadOutcomes : LocalLoadBody(outcome)
    /\ UNCHANGED <<variant, mounted, user>>

\* saveEntries: on success the value to return; on failure it throws
saveEntriesOptimistic(newEntries, outcome, op, id, res) ==
    /\ entries' = newEntries
    /\ IF outcome = "ok"
       THEN /\ storage' = Val(stringify(newEntries))
            /\ Done(op, id, res, outcome)
            /\ UNCHANGED error
       ELSE /\ error' = "Failed to save sleep data"
            /\ Done(op, id, "throw", outcome)
            /\ UNCHANGED storage
saveEntries(newEntries, outcome, op, id, res) ==
    IF outcome = "ok"
    THEN /\ storage' = Val(stringify(newEntries))
         /\ entries' = newEntries
         /\ Done(op, id, res, outcome)
         /\ UNCHANGED error
    ELSE /\ error' = "Failed to save sleep data"
         /\ Done(op, id, "throw", outcome)
         /\ UNCHANGED <<storage, entries>>

LocalAddEntry ==
    /\ variant = "local" /\ mounted /\ nextId < MaxIds
    /\ \E bedtime \in BedTimes, f \in Forms, outcome \in Outcomes :
         LET id == nextId + 1
             newEntry == LocalEntry(id, bedtime, bedtime + f.off, f.note)
             updatedEntries == <<newEntry>> \o entries
         IN  /\ saveEntries(updatedEntries, outcome, "add", id, "entry")
             /\ nextId' = IF outcome = "ok" THEN id ELSE nextId
    /\ cleared' = "no"
    /\ UNCHANGED <<variant, mounted, user, loading, db>>

LocalUpdateEntry ==
    /\ variant = "local" /\ mounted
    /\ \E id \in 1..MaxIds :
         LET index == findIndex(entries, id)
         IN  IF index = 0
             THEN /\ Done("update", id, "null", "none")
                  /\ UNCHANGED <<entries, storage, error>>
             ELSE \E bedtime \in BedTimes, f \in Forms, outcome \in Outcomes :
                    LET updatedEntry ==
                            LocalEntry(id, bedtime, bedtime + f.off, f.note)
                        updatedEntries ==
                            sortDesc([entries EXCEPT ![index] = updatedEntry])
                    IN  saveEntries(updatedEntries, outcome, "update", id, "entry")
    /\ UNCHANGED <<variant, mounted, user, loading, db, nextId, cleared>>

LocalDeleteEntry ==
    /\ variant = "local" /\ mounted
    /\ \E id \in 1..MaxIds :
         LET updatedEntries == filterOut(entries, id)
         IN  IF Len(updatedEntries) = Len(entries)
             THEN /\ Done("delete", id, "false", "none")
                  /\ UNCHANGED <<entries, storage, error>>
             ELSE \E outcome \in Outcomes :
                    saveEntries(updatedEntries, outcome, "delete", id, "true")
    /\ UNCHANGED <<variant, mounted, user, loading, db, nextId, cleared>>

LocalClearAllDataKeepsItem ==
    /\ variant = "local" /\ mounted
    /\ \E outcome \in Outcomes :
         IF outcome = "ok"
         THEN /\ entries' = <<>>
              /\ cleared' = IF storage = Null \/ storage = Val(<<>>) THEN "empty"
                            ELSE "nonempty"
              /\ Done("clearAll", 0, "void", outcome)
              /\ UNCHANGED <<storage, error>>
         ELSE /\ error' = "Failed to clear sleep data"
              /\ Done("clearAll", 0, "throw", outcome)
              /\ UNCHANGED <<storage, entries, cleared>>
    /\ UNCHANGED <<variant, mounted, user, loading, db, nextId>>
LocalClearAllData ==
    /\ variant = "local" /\ mounted
    /\ \E outcome \in Outcomes :
         IF outcome = "ok"
         THEN /\ storage' = Null
              /\ entries' = <<>>
              /\ cleared' = IF storage = Null \/ storage = Val(<<>>) THEN "empty"
                            ELSE "nonempty"
              /\ Done("clearAll", 0, "void", outcome)
              /\ UNCHANGED error
         ELSE /\ error' = "Failed to clear sleep data"
              /\ Done("clearAll", 0, "throw", outcome)
              /\ UNCHANGED <<storage, entries, cleared>>
    /\ UNCHANGED <<variant, mounted, user, loading, db, nextId>>

-----------------------------------------------------------------------------
(* The Supabase table sleep_entries, as the remote hook calls it.  Each    *)
(* call answers { data, error } and leaves the table as given in db.       *)

TheUser == "u1"

Answer(data, err, table) == [data |-> data, error |-> err, db |-> table]

\* .insert({...}).select().single()
InsertSingle(id, uid, c, outcome) ==
    LET row == Row(id, uid, c)
    IN  CASE outcome = "ok" -> Answer(Val(row), Null, db \cup {row})
          [] OTHER -> Answer(Null, Val("rejected"), db)

\* .update({...}).eq('id', id).eq('user_id', uid).select().single(): single()
\* answers an error (PostgREST PGRST116) unless exactly one row comes back
UpdateSingle(id, uid, c, outcome) ==
    LET hit == {r \in db : r.id = id /\ r.user_id = uid}
        table == (db \ hit) \cup {Row(r.id, r.user_id, c) : r \in hit}
    IN  CASE outcome = "ok" /\ Cardinality(hit) = 1 ->
                Answer(Val(Row(id, uid, c)), Null, table)
          [] outcome = "ok" /\ Cardinality(hit) # 1 ->
                Answer(Null, Val("PGRST116"), table)
          [] OTHER -> Answer(Null, Val("rejected"), db)

\* .delete().eq('id', id).eq('user_id', uid): deleting no row is no error
DeleteById(id, uid, outcome) ==
    LET table == {r \in db : ~(r.id = id /\ r.user_id = uid)}
    IN  CASE outcome = "ok" -> Answer(Null, Null, table)
          [] OTHER -> Answer(Null, Val("rejected"), db)

\* .delete().eq('user_id', uid)
DeleteAll(uid, outcome) ==
    LET table == {r \in db : r.user_id # uid}
    IN  CASE outcome = "ok" -> Answer(Null, Null, table)
          [] OTHER -> Answer(Null, Val("rejected"), db)

-----------------------------------------------------------------------------
(* The remote hook (Supabase).                                             *)

\* loadEntries for a signed-in user
RemoteLoadBody(uid, outcome) ==
    /\ IF outcome = "ok"
       THEN /\ \E data \in SelectOrdered(uid) :
                 entries' = [i \in 1..Len(data) |-> toSleepEntry(data[i])]
            /\ error' = NoError
            /\ Done("load", 0, "ok", outcome)
       ELSE /\ error' = "Failed to load sleep data"
            /\ Done("load", 0, "fail", outcome)
            /\ UNCHANGED entries
    /\ loading' = FALSE
    /\ UNCHANGED <<storage, db, nextId, cleared>>

\* useEffect(() => { if (user) loadEntries(); else { setEntries([]);
\* setLoading(false); } }, [user])
UserEffect ==
    IF user # NoUser
    THEN \E outcome \in {"ok", "rejected"} : RemoteLoadBody(user, outcome)
    ELSE /\ entries' = <<>>
         /\ loading' = FALSE
         /\ Done("effect", 0, "void", "none")
         /\ UNCHANGED <<error, storage, db, nextId, cleared>>

RemoteMount ==
    /\ variant = "remote" /\ ~mounted
    /\ mounted' = TRUE
    /\ UserEffect
    /\ UNCHANGED <<variant, user>>

\* the identity provider reports a sign-in; the effect on [user] runs
SignIn ==
    /\ variant = "remote" /\ mounted /\ user = NoUser
    /\ user' = TheUser
    /\ \E outcome \in {"ok", "rejected"} : RemoteLoadBody(TheUser, outcome)
    /\ UNCHANGED <<variant, mounted>>

\* the identity provider reports a sign-out; the effect on [user] runs
SignOut ==
    /\ variant = "remote" /\ mounted /\ user # NoUser
    /\ user' = NoUser
    /\ entries' = <<>>
    /\ loading' = FALSE
    /\ Done("effect", 0, "void", "none")
    /\ UNCHANGED <<variant, mounted, error, storage, db, nextId, cleared>>

\* if (!user) throw new Error('User not authenticated')
NotAuthenticatedReturns(op, id) ==
    /\ Done(op, id, "null", "none")
    /\ UNCHANGED <<entries, error, db, nextId>>
NotAuthenticated(op, id) ==
    /\ Done(op, id, "unauth", "none")
    /\ UNCHANGED <<entries, error, db, nextId>>

\* refresh: loadEntries
RemoteLoadEntries ==
    /\ variant = "remote" /\ mounted
    /\ IF user = NoUser
       THEN /\ Done("load", 0, "noop", "none")
            /\ UNCHANGED <<entries, loading, error, storage, db, nextId, cleared>>
       ELSE \E outcome \in {"ok", "rejected"} : RemoteLoadBody(user, outcome)
    /\ UNCHANGED <<variant, mounted, user>>

RemoteAddEntry ==
    /\ variant = "remote" /\ mounted /\ nextId < MaxIds
    /\ IF user = NoUser
       THEN NotAuthenticated("add", 0)
       ELSE \E bedtime \in BedTimes, f \in Forms, outcome \in Outcomes :
              LET id == nextId + 1
                  c == RemoteColumns(bedtime, bedtime + f.off, f.note, f.quality)
                  r == InsertSingle(id, user, c, outcome)
              IN  /\ db' = r.db
                  /\ nextId' = IF outcome = "ok" THEN id ELSE nextId
                  /\ IF r.error # Null
                     THEN /\ Done("add", id, "throw", outcome)
                          /\ UNCHANGED entries
                     ELSE /\ entries' = <<toSleepEntry(r.data.v)>> \o entries
                          /\ Done("add", id, "entry", outcome)
                  /\ UNCHANGED error
    /\ cleared' = "no"
    /\ UNCHANGED <<variant, mounted, user, loading, storage>>

RemoteUpdateEntry ==
    /\ variant = "remote" /\ mounted
    /\ \E id \in 1..MaxIds :
         IF user = NoUser
         THEN NotAuthenticated("update", id)
         ELSE \E bedtime \in BedTimes, f \in Forms, outcome \in Outcomes :
                LET c == RemoteColumns(bedtime, bedtime + f.off, f.note, f.quality)
                    r == UpdateSingle(id, user, c, outcome)
                IN  /\ db' = r.db
                    /\ IF r.error # Null
                       THEN /\ Done("update", id, "throw", outcome)
                            /\ UNCHANGED entries
                       ELSE IF r.data = Null
                       THEN /\ Done("update", id, "null", outcome)
                            /\ UNCHANGED entries
                       ELSE /\ entries' = sortDesc(mapReplace(entries, id,
                                                      toSleepEntry(r.data.v)))
                            /\ Done("update", id, "entry", outcome)
                    /\ UNCHANGED <<error, nextId>>
    /\ UNCHANGED <<variant, mounted, user, loading, storage, cleared>>

RemoteDeleteEntry ==
    /\ variant = "remote" /\ mounted
    /\ \E id \in 1..MaxIds :
         IF user = NoUser
         THEN NotAuthenticated("delete", id)
         ELSE \E outcome \in Outcomes :
                LET r == DeleteById(id, user, outcome)
                IN  /\ db' = r.db
                    /\ IF r.error # Null
                       THEN /\ Done("delete", id, "throw", outcome)
                            /\ UNCHANGED entries
                       ELSE /\ entries' = filterOut(entries, id)
                            /\ Done("delete", id, "true", outcome)
                    /\ UNCHANGED <<error, nextId>>
    /\ UNCHANGED <<variant, mounted, user, loading, storage, cleared>>

RemoteClearAllData ==
    /\ variant = "remote" /\ mounted
    /\ IF user = NoUser
       THEN NotAuthenticated("clearAll", 0) /\ UNCHANGED cleared
       ELSE \E outcome \in Outcomes :
              LET r == DeleteAll(user, outcome)
              IN  /\ db' = r.db
                  /\ IF r.error # Null
                     THEN /\ Done("clearAll", 0, "throw", outcome)
                          /\ UNCHANGED <<entries, cleared>>
                     ELSE /\ entries' = <<>>
                          /\ cleared' = IF {x \in db : x.user_id = user} = {}
                                        THEN "empty" ELSE "nonempty"
                          /\ Done("clearAll", 0, "void", outcome)
                  /\ UNCHANGED <<error, nextId>>
    /\ UNCHANGED <<variant, mounted, user, loading, storage>>

\* The screen that holds the hook is left and opened again (or the app is
\* restarted): a new instance of the hook, in its constructed state, over the
\* same backend.
Remount ==
    /\ mounted
    /\ mounted' = FALSE
    /\ entries' = <<>>
    /\ loading' = TRUE
    /\ error' = NoError
    /\ Done("new", 0, "void", "none")
    /\ UNCHANGED <<variant, user, storage, db, nextId, cleared>>

\* getEntry: entries.find(e => e.id === id)
getEntry(id) ==
    IF id \in Ids(entries) THEN Val(entries[findIndex(entries, id)]) ELSE Undefined

\* getLatestEntry: entries[0]
getLatestEntry == IF entries = <<>> THEN Undefined ELSE Val(entries[1])

-----------------------------------------------------------------------------
(* The hooks, each call running to completion.                             *)

Init ==
    /\ variant \in {"local", "remote"}
    /\ mounted = FALSE
    /\ user \in (IF variant = "remote" THEN {NoUser, TheUser} ELSE {NoUser})
    /\ entries = <<>>
    /\ loading = TRUE
    /\ error = NoError
    /\ storage = Null
    /\ db = {}
    /\ nextId = 0
    /\ last = [op |-> "new", id |-> 0, res |-> "void", backend |-> "none"]
    /\ cleared = "no"
    /\ dBed = 0 /\ dWake = 0 /\ dRes = Undefined
    /\ now = 0 /\ tz = 0 /\ stats = Undefined
    /\ peer = NoPeer
    /\ NoSettings
    /\ NoFormat
    /\ flight = NoFlight

Next ==
    \/ (LocalMount /\ UNCHANGED besideHook)
    \/ (LocalLoadEntries /\ UNCHANGED besideHook)
    \/ (LocalAddEntry /\ UNCHANGED besideHook)
    \/ (LocalUpdateEntry /\ UNCHANGED besideHook)
    \/ (LocalDeleteEntry /\ UNCHANGED besideHook)
    \/ (LocalClearAllData /\ UNCHANGED besideHook)
    \/ (RemoteMount /\ UNCHANGED besideHook)
    \/ (SignIn /\ UNCHANGED besideHook)
    \/ (SignOut /\ UNCHANGED besideHook)
    \/ (RemoteLoadEntries /\ UNCHANGED besideHook)
    \/ (RemoteAddEntry /\ UNCHANGED besideHook)
    \/ (RemoteUpdateEntry /\ UNCHANGED besideHook)
    \/ (RemoteDeleteEntry /\ UNCHANGED besideHook)
    \/ (RemoteClearAllData /\ UNCHANGED besideHook)
    \/ (Remount /\ UNCHANGED besideHook)

Spec == Init /\ [][Next]_vars

-----------------------------------------------------------------------------
(* The sleep-detail screen over a hook (SpecDetail): handleSave of         *)
(* src/unnamed/part_007, lines 115-137, which calls updateEntry(id,        *)
(* bedtime, wakeTime, note) for the entry the screen shows.                *)

handleSave ==
    /\ mounted
    /\ \E id \in Ids(entries), bedtime \in BedTimes, f \in Forms, outcome \in Outcomes :
         LET wakeTime == bedtime + f.off
             note == StrOr(f.note, Val(<<>>))
             quality == Undefined
             duration == calculateDuration(bedtime, wakeTime)
             index == findIndex(entries, id)
             updatedEntry == LocalEntry(id, bedtime, wakeTime, note)
             c == RemoteColumns(bedtime, wakeTime, note, quality)
             r == UpdateSingle(id, user, c, outcome)
         IN  IF duration < 5 \/ duration > 240
             THEN /\ Done("handleSave", id, "invalid", "none")
                  /\ UNCHANGED <<entries, storage, db, error>>
             ELSE IF variant = "local"
             THEN /\ saveEntries(sortDesc([entries EXCEPT ![index] = updatedEntry]),
                                 outcome, "handleSave", id, "entry")
                  /\ UNCHANGED db
             ELSE IF user = NoUser
             THEN /\ Done("handleSave", id, "unauth", "none")
                  /\ UNCHANGED <<entries, storage, db, error>>
             ELSE /\ db' = r.db
                  /\ IF r.error # Null
                     THEN /\ Done("handleSave", id, "throw", outcome)
                          /\ UNCHANGED entries
                     ELSE /\ entries' = sortDesc(mapReplace(entries, id,
                                                    toSleepEntry(r.data.v)))
                          /\ Done("handleSave", id, "entry", outcome)
                  /\ UNCHANGED <<storage, error>>
    /\ UNCHANGED <<variant, mounted, user, loading, nextId, cleared>>

NextDetail ==
    \/ Next
    \/ (handleSave /\ UNCHANGED besideHook)

SpecDetail == Init /\ [][NextDetail]_vars

-----------------------------------------------------------------------------
(* The entry hooks with calls that overlap (SpecRace).  A call of          *)
(* loadEntries, addEntry, updateEntry or deleteEntry runs up to its await  *)
(* of the backend in one step, in which the backend answers, and the code  *)
(* after the await runs in a later step; other calls, and the sign-out     *)
(* effect, can run in between.  A useCallback closure reads the entries of *)
(* the render in which the call is made.  A call that returns or throws    *)
(* before its await changes nothing and is left out.                       *)

\* the slots of flight that hold no call, and the one a new call takes
Free == {k \in 1..MaxFlight : flight.calls[k].pc = "idle"}
Slot == CHOOSE k \in Free : \A j \in Free : k <= j

\* a call reaches its await: what the backend answers and how the call will end
Await(op, id, data, res) ==
    flight' = [flight EXCEPT !.calls[Slot] =
                  [op |-> op, pc |-> "sent", id |-> id, seen |-> entries,
                   data |-> data, res |-> res]]

\* the code after the await has run
Resume(k) ==
    flight' = [flight EXCEPT !.calls[k] = NoCall,
                             !.failed = @ \/ flight.calls[k].res \in {"fail", "throw"}]

\* the times and the note the overlapping calls are made with: addEntry for
\* the first night, updateEntry for the second
RaceBed(op) == IF op = "add" THEN 1 * DayMs + 22 * HourMs ELSE 2 * DayMs + 22 * HourMs
RaceOff == (15 * HourMs) \div 2
RaceNote == Undefined

\* loadEntries up to its await: setLoading(true), setError(null), the read
RaceLoadSent(uid) ==
    /\ loading' = TRUE
    /\ error' = NoError
    /\ IF variant = "local"
       THEN \E outcome \in LocalLoadOutcomes :
              IF outcome = "ok"
              THEN Await("load", 0, IF storage.t = "val" THEN sortDesc(parse(storage.v))
                                    ELSE <<>>, "ok")
              ELSE Await("load", 0, <<>>, "fail")
       ELSE \E outcome \in Outcomes :
              IF outcome = "ok"
              THEN \E data \in SelectOrdered(uid) :
                     Await("load", 0, [i \in 1..Len(data) |-> toSleepEntry(data[i])],
                           "ok")
              ELSE Await("load", 0, <<>>, "fail")
    /\ UNCHANGED <<variant, entries, storage, db, nextId, last, cleared>>

\* the mount effect: useEffect(() => { loadEntries(); }, []) of the local
\* hook, the effect on [user] of the remote hook
RaceMount ==
    /\ ~mounted
    /\ mounted' = TRUE
    /\ IF variant = "local" \/ user # NoUser
       THEN RaceLoadSent(user)
       ELSE /\ entries' = <<>>
            /\ loading' = FALSE
            /\ UNCHANGED <<variant, error, storage, db, nextId, last, cleared, flight>>
    /\ UNCHANGED user

\* refresh: loadEntries
RaceLoadEntries ==
    /\ mounted /\ Free # {}
    /\ variant = "remote" => user # NoUser
    /\ RaceLoadSent(user)
    /\ UNCHANGED <<mounted, user>>

\* loadEntries after its await
RaceLoadResumes ==
    \E k \in 1..MaxFlight :
      /\ flight.calls[k].pc = "sent" /\ flight.calls[k].op = "load"
      /\ IF flight.calls[k].res = "ok"
         THEN entries' = flight.calls[k].data /\ UNCHANGED error
         ELSE error' = "Failed to load sleep data" /\ UNCHANGED entries
      /\ loading' = FALSE
      /\ Resume(k)
      /\ UNCHANGED <<variant, mounted, user, storage, db, nextId, last, cleared>>

\* the identity provider reports a sign-in; the effect on [user] runs
RaceSignIn ==
    /\ variant = "remote" /\ mounted /\ user = NoUser /\ Free # {}
    /\ user' = TheUser
    /\ RaceLoadSent(TheUser)
    /\ UNCHANGED mounted

\* the identity provider reports a sign-out; the effect on [user] runs
RaceSignOut ==
    /\ variant = "remote" /\ mounted /\ user # NoUser
    /\ user' = NoUser
    /\ entries' = <<>>
    /\ loading' = FALSE
    /\ UNCHANGED <<variant, mounted, error, storage, db, nextId, last, cleared, flight>>

\* saveEntries up to its await: setItem
RaceSaveSent(op, id, newEntries, res) ==
    \E outcome \in Outcomes :
      /\ storage' = IF outcome = "ok" THEN Val(stringify(newEntries)) ELSE storage
      /\ Await(op, id, newEntries, IF outcome = "ok" THEN res ELSE "throw")
      /\ UNCHANGED db

\* a call of the remote hook up to its await: the table's answer r
RaceRowSent(op, id, r, res) ==
    /\ db' = r.db
    /\ IF r.error # Null
       THEN Await(op, id, <<>>, "throw")
       ELSE Await(op, id, IF r.data = Null THEN <<>> ELSE <<toSleepEntry(r.data.v)>>,
                  res)
    /\ UNCHANGED storage

\* addEntry up to its await
RaceAddEntry ==
    /\ mounted /\ Free # {} /\ nextId < MaxIds
    /\ variant = "remote" => user # NoUser
    /\ LET id == nextId + 1
           bedtime == RaceBed("add")
           wakeTime == bedtime + RaceOff
       IN  /\ IF variant = "local"
              THEN RaceSaveSent("add", id,
                       <<LocalEntry(id, bedtime, wakeTime, RaceNote)>> \o entries,
                       "entry")
              ELSE \E outcome \in Outcomes :
                     RaceRowSent("add", id,
                         InsertSingle(id, user, RemoteColumns(bedtime, wakeTime,
                                          RaceNote, Undefined), outcome),
                         "entry")
           /\ nextId' = IF flight'.calls[Slot].res = "entry" THEN id ELSE nextId
    /\ UNCHANGED <<variant, mounted, user, entries, loading, error, last, cleared>>

\* updateEntry up to its await
RaceUpdateEntry ==
    /\ mounted /\ Free # {}
    /\ \E id \in 1..MaxIds :
         LET index == findIndex(entries, id)
             bedtime == RaceBed("update")
             wakeTime == bedtime + RaceOff
         IN  IF variant = "local"
             THEN /\ index # 0
                  /\ RaceSaveSent("update", id,
                         sortDesc([entries EXCEPT ![index] =
                             LocalEntry(id, bedtime, wakeTime, RaceNote)]),
                         "entry")
             ELSE /\ user # NoUser
                  /\ \E outcome \in Outcomes :
                       RaceRowSent("update", id,
                           UpdateSingle(id, user, RemoteColumns(bedtime, wakeTime,
                                            RaceNote, Undefined), outcome),
                           "entry")
    /\ UNCHANGED <<variant, mounted, user, entries, loading, error, nextId, last,
                   cleared>>

\* deleteEntry up to its await
RaceDeleteEntry ==
    /\ mounted /\ Free # {}
    /\ \E id \in 1..MaxIds :
         IF variant = "local"
         THEN /\ Len(filterOut(entries, id)) # Len(entries)
              /\ RaceSaveSent("delete", id, filterOut(entries, id), "true")
         ELSE /\ user # NoUser
              /\ \E outcome \in Outcomes :
                   RaceRowSent("delete", id, DeleteById(id, user, outcome), "true")
    /\ UNCHANGED <<variant, mounted, user, entries, loading, error, nextId, last,
                   cleared>>

\* what a mutation of the remote hook hands to setEntries, applied to prev
RemoteSetEntries(call, prev) ==
    CASE call.op = "add" -> <<call.data[1]>> \o prev
      [] call.op = "update" -> sortDesc(mapReplace(prev, call.id, call.data[1]))
      [] OTHER -> filterOut(prev, call.id)

\* what a mutation sets the snapshot to after its await: saveEntries calls
\* setEntries(newEntries) with the entries computed at the call, the remote
\* hook calls setEntries(prev => ...) on the snapshot as it is by then
SetEntriesFromCallTime(call) ==
    IF variant = "local" THEN call.data ELSE RemoteSetEntries(call, call.seen)
SetEntriesAtResume(call) ==
    IF variant = "local" THEN call.data ELSE RemoteSetEntries(call, entries)

\* a mutation after its await
RaceMutationResumes ==
    \E k \in 1..MaxFlight :
      /\ flight.calls[k].pc = "sent" /\ flight.calls[k].op # "load"
      /\ IF flight.calls[k].res = "throw"
         THEN /\ error' = IF variant = "local" THEN "Failed to save sleep data"
                          ELSE error
              /\ UNCHANGED entries
         ELSE /\ entries' = SetEntriesAtResume(flight.calls[k])
              /\ UNCHANGED error
      /\ Resume(k)
      /\ UNCHANGED <<variant, mounted, user, loading, storage, db, nextId, last,
                     cleared>>

InitRace ==
    /\ variant \in {"local", "remote"}
    /\ mounted = FALSE
    /\ user \in (IF variant = "remote" THEN {NoUser, TheUser} ELSE {NoUser})
    /\ entries = <<>>
    /\ loading = TRUE
    /\ error = NoError
    /\ storage = Null
    /\ db = {}
    /\ nextId = 0
    /\ last = [op |-> "new", id |-> 0, res |-> "void", backend |-> "none"]
    /\ cleared = "no"
    /\ dBed = 0 /\ dWake = 0 /\ dRes = Undefined
    /\ now = 0 /\ tz = 0 /\ stats = Undefined
    /\ peer = NoPeer
    /\ NoSettings
    /\ NoFormat
    /\ flight = NoFlight

\* what the calls of the entry hooks in flight leave alone
besideRace == <<durVars, statVars, peer, settingsVars, fmtVars>>

NextRace ==
    \/ (RaceMount /\ UNCHANGED besideRace)
    \/ (RaceLoadEntries /\ UNCHANGED besideRace)
    \/ (RaceLoadResumes /\ UNCHANGED besideRace)
    \/ (RaceSignIn /\ UNCHANGED besideRace)
    \/ (RaceSignOut /\ UNCHANGED besideRace)
    \/ (RaceAddEntry /\ UNCHANGED besideRace)
    \/ (RaceUpdateEntry /\ UNCHANGED besideRace)
    \/ (RaceDeleteEntry /\ UNCHANGED besideRace)
    \/ (RaceMutationResumes /\ UNCHANGED besideRace)

SpecRace == InitRace /\ [][NextRace]_vars

-----------------------------------------------------------------------------
(* calculateDuration on its own: every pair of instants of a grid that     *)
(* holds wake times before, at and after the bedtime, up to MaxHalfDay     *)
(* half days apart.                                                        *)

DurInstants ==
    {h * 12 * HourMs + k * TickMs : h \in 0..MaxHalfDay, k \in 0..MaxTick}

InitDur ==
    /\ variant = "local"
    /\ mounted = FALSE
    /\ user = NoUser
    /\ entries = <<>>
    /\ loading = TRUE
    /\ error = NoError
    /\ storage = Null
    /\ db = {}
    /\ nextId = 0
    /\ last = [op |-> "new", id |-> 0, res |-> "void", backend |-> "none"]
    /\ cleared = "no"
    /\ dBed \in DurInstants
    /\ dWake \in DurInstants
    /\ dRes = Undefined
    /\ now = 0 /\ tz = 0 /\ stats = Undefined
    /\ peer = NoPeer
    /\ NoSettings
    /\ NoFormat
    /\ flight = NoFlight

CallCalculateDuration ==
    /\ dRes = Undefined
    /\ dRes' = Val(calculateDuration(dBed, dWake))
    /\ UNCHANGED <<dBed, dWake>>
    /\ UNCHANGED <<hookVars, statVars, peer, settingsVars, fmtVars, flight>>

NextDur == CallCalculateDuration

SpecDur == InitDur /\ [][NextDur]_vars

-----------------------------------------------------------------------------
(* The weekly statistics: getWeeklyStats of useSleepStorage.ts (lines      *)
(* 225-266, and the same text at 536-577), on its own.  The device's time  *)
(* zone is a fixed offset tz from UTC (no daylight-saving change within    *)
(* the week).  Sums of durations are sums of tenths of an hour.            *)

\* Date.prototype.getDate, as the number of the local calendar day since the
\* epoch, and the local time within that day
getDate(t) == (t + tz) \div DayMs
timeOfDay(t) == (t + tz) % DayMs
\* date.setDate(d): the same local time of day on the local day d
setDate(t, d) == d * DayMs + timeOfDay(t) - tz
\* date.setHours(h, m, s, ms): that local time on the date's local day
setHours(t, h, m, s, ms) ==
    getDate(t) * DayMs + ((h * 60 + m) * 60 + s) * 1000 + ms - tz

\* date.toLocaleDateString('en-US', { weekday: 'short' }); day 0 of the epoch
\* was a Thursday
WeekdayShort == <<"Thu", "Fri", "Sat", "Sun", "Mon", "Tue", "Wed">>
toLocaleDateString(t) == WeekdayShort[(getDate(t) % 7) + 1]

\* dayStart and dayEnd of the loop body
dayStart(date) == setHours(date, 0, 0, 0, 0)
dayEndWholeSecond(date) == setHours(date, 23, 59, 59, 0)
dayEnd(date) == setHours(date, 23, 59, 59, 999)

\* entries.filter(entry => bedtime >= dayStart && bedtime <= dayEnd)
dayEntries(s, date) ==
    SelectSeq(s, LAMBDA entry : /\ getTime(entry.bedtime) >= dayStart(date)
                                /\ getTime(entry.bedtime) <= dayEnd(date))

\* dayEntries.reduce((sum, entry) => sum + entry.duration, 0)
RECURSIVE totalDuration(_)
totalDuration(s) ==
    IF s = <<>> THEN 0 ELSE totalDuration(SubSeq(s, 1, Len(s) - 1)) + s[Len(s)].duration

\* daysWithData.reduce((a, b) => a + b, 0)
RECURSIVE sumOf(_)
sumOf(s) == IF s = <<>> THEN 0 ELSE sumOf(SubSeq(s, 1, Len(s) - 1)) + s[Len(s)]

\* the values i takes in for (let i = 6; i >= 0; i--), in order
loopAscending == [k \in 1..7 |-> k - 1]
loop == [k \in 1..7 |-> 7 - k]

\* totalEntries: entries.length
totalEntriesOfWeek(s) ==
    Len(SelectSeq(s, LAMBDA entry :
        \E k \in 1..7 : entry \in Range(dayEntries(s, setDate(now, getDate(now) - loop[k])))))
totalEntries(s) == Len(s)

\* getWeeklyStats on the snapshot s.  averageDuration is kept in tenths of an
\* hour: Math.round(averageDuration * 10) of the code.
getWeeklyStats(s) ==
    LET date(i) == setDate(now, getDate(now) - i)
        dayLabels == [k \in 1..7 |-> toLocaleDateString(date(loop[k]))]
        dailyDurations ==
            [k \in 1..7 |-> totalDuration(dayEntries(s, date(loop[k])))]
        daysWithData == SelectSeq(dailyDurations, LAMBDA d : d > 0)
        averageDuration ==
            IF Len(daysWithData) > 0
            THEN RoundDiv(sumOf(daysWithData), Len(daysWithData))
            ELSE 0
    IN  [dayLabels |-> dayLabels, dailyDurations |-> dailyDurations,
         averageDuration |-> averageDuration, totalEntries |-> totalEntries(s)]

\* the time zones tried: UTC+05:30 and UTC-08:00
TimeZones == {(11 * HourMs) \div 2, 0 - 8 * HourMs}
\* the instants of the call: 03:00 and 20:00 UTC of day 9
StatNows == {9 * DayMs + 3 * HourMs, 9 * DayMs + 20 * HourMs}
\* the bedtimes of the snapshot, on either side of a local midnight: the last
\* millisecond of the day before the window, the first and the last of its
\* first day, the first of its second day, the last of today and the first of
\* tomorrow
StatBedtimes ==
    {(getDate(now) + p[1]) * DayMs + p[2] - tz :
        p \in {<<0 - 7, DayMs - 1>>, <<0 - 6, 0>>, <<0 - 6, DayMs - 1>>,
               <<0 - 5, 0>>, <<0, DayMs - 1>>, <<1, 0>>}}
\* the wake times, as offsets from the bedtime: 5 h and 8 h later, and 36 h
\* earlier (calculateDuration then gives -12 h)
StatOffsets == {5 * HourMs, 8 * HourMs, 0 - 36 * HourMs}
\* the snapshots: up to MaxStatEntries entries as the hook builds and orders them
StatSnapshots ==
    UNION { { sortDesc([i \in 1..n |->
                  LocalEntry(i, c[i][1], c[i][1] + c[i][2], Undefined)]) :
              c \in [1..n -> StatBedtimes \X StatOffsets] } :
            n \in 0..MaxStatEntries }

InitStats ==
    /\ variant = "local"
    /\ mounted = TRUE
    /\ user = NoUser
    /\ tz \in TimeZones
    /\ now \in StatNows
    /\ entries \in StatSnapshots
    /\ loading = FALSE
    /\ error = NoError
    /\ storage = Val(stringify(entries))
    /\ db = {}
    /\ nextId = Len(entries)
    /\ last = [op |-> "load", id |-> 0, res |-> "ok", backend |-> "ok"]
    /\ cleared = "no"
    /\ dBed = 0 /\ dWake = 0 /\ dRes = Undefined
    /\ stats = Undefined
    /\ peer = NoPeer
    /\ NoSettings
    /\ NoFormat
    /\ flight = NoFlight

CallGetWeeklyStats ==
    /\ stats = Undefined
    /\ stats' = Val(getWeeklyStats(entries))
    /\ UNCHANGED <<now, tz>>
    /\ UNCHANGED <<hookVars, durVars, peer, settingsVars, fmtVars, flight>>

NextStats == CallGetWeeklyStats

SpecStats == InitStats /\ [][NextStats]_vars

-----------------------------------------------------------------------------
(* The two variants side by side (SpecPair): a local hook (entries,        *)
(* storage, last) and a remote hook of a signed-in user (peer, db) start   *)
(* from empty backends and are given the same calls with the same          *)
(* arguments; no call to a backend fails.  Both number their entries in    *)
(* the order of creation.                                                  *)

\* loadEntries of both hooks
PairLoad ==
    /\ LocalLoadBody("ok")
    /\ \E data \in SelectOrdered(user) :
         peer' = [entries |-> [i \in 1..Len(data) |-> toSleepEntry(data[i])],
                  res |-> "ok"]
    /\ UNCHANGED <<variant, mounted, user>>

\* addEntry(bedtime, wakeTime, note, quality) of both hooks: the local hook
\* has no fourth parameter and ignores the argument
PairAdd ==
    /\ nextId < MaxIds
    /\ \E bedtime \in BedTimes, f \in Forms :
         LET id == nextId + 1
             newEntry == LocalEntry(id, bedtime, bedtime + f.off, f.note)
             c == RemoteColumns(bedtime, bedtime + f.off, f.note, f.quality)
             r == InsertSingle(id, user, c, "ok")
         IN  /\ saveEntries(<<newEntry>> \o entries, "ok", "add", id, "entry")
             /\ nextId' = id
             /\ db' = r.db
             /\ peer' = [entries |-> <<toSleepEntry(r.data.v)>> \o peer.entries,
                         res |-> "entry"]
    /\ cleared' = "no"
    /\ UNCHANGED <<variant, mounted, user, loading>>

\* updateEntry(id, bedtime, wakeTime, note, quality) of both hooks
PairUpdate ==
    /\ \E id \in 1..MaxIds, bedtime \in BedTimes, f \in Forms :
         LET index == findIndex(entries, id)
             updatedEntry == LocalEntry(id, bedtime, bedtime + f.off, f.note)
             c == RemoteColumns(bedtime, bedtime + f.off, f.note, f.quality)
             r == UpdateSingle(id, user, c, "ok")
         IN  /\ IF index = 0
                THEN /\ Done("update", id, "null", "none")
                     /\ UNCHANGED <<entries, storage, error>>
                ELSE saveEntries(sortDesc([entries EXCEPT ![index] = updatedEntry]),
                                 "ok", "update", id, "entry")
             /\ db' = r.db
             /\ peer' = IF r.error # Null THEN [peer EXCEPT !.res = "throw"]
                        ELSE IF r.data = Null THEN [peer EXCEPT !.res = "null"]
                        ELSE [entries |-> sortDesc(mapReplace(peer.entries, id,
                                                       toSleepEntry(r.data.v))),
                              res |-> "entry"]
    /\ UNCHANGED <<variant, mounted, user, loading, nextId, cleared>>

\* deleteEntry(id) of both hooks
PairDelete ==
    /\ \E id \in 1..MaxIds :
         LET updatedEntries == filterOut(entries, id)
             r == DeleteById(id, user, "ok")
         IN  /\ IF Len(updatedEntries) = Len(entries)
                THEN /\ Done("delete", id, "false", "none")
                     /\ UNCHANGED <<entries, storage, error>>
                ELSE saveEntries(updatedEntries, "ok", "delete", id, "true")
             /\ db' = r.db
             /\ peer' = [entries |-> filterOut(peer.entries, id), res |-> "true"]
    /\ UNCHANGED <<variant, mounted, user, loading, nextId, cleared>>

\* clearAllData of both hooks
PairClearAll ==
    /\ storage' = Null
    /\ entries' = <<>>
    /\ Done("clearAll", 0, "void", "ok")
    /\ db' = DeleteAll(user, "ok").db
    /\ peer' = [entries |-> <<>>, res |-> "void"]
    /\ UNCHANGED <<variant, mounted, user, loading, error, nextId, cleared>>

InitPair ==
    /\ variant = "local"
    /\ mounted = TRUE
    /\ user = TheUser
    /\ entries = <<>>
    /\ loading = FALSE
    /\ error = NoError
    /\ storage = Null
    /\ db = {}
    /\ nextId = 0
    /\ last = [op |-> "load", id |-> 0, res |-> "ok", backend |-> "ok"]
    /\ cleared = "no"
    /\ dBed = 0 /\ dWake = 0 /\ dRes = Undefined
    /\ now = 0 /\ tz = 0 /\ stats = Undefined
    /\ peer = [entries |-> <<>>, res |-> "ok"]
    /\ NoSettings
    /\ NoFormat
    /\ flight = NoFlight

NextPair ==
    \/ (PairLoad /\ UNCHANGED <<durVars, statVars, settingsVars, fmtVars, flight>>)
    \/ (PairAdd /\ UNCHANGED <<durVars, statVars, settingsVars, fmtVars, flight>>)
    \/ (PairUpdate /\ UNCHANGED <<durVars, statVars, settingsVars, fmtVars, flight>>)
    \/ (PairDelete /\ UNCHANGED <<durVars, statVars, settingsVars, fmtVars, flight>>)
    \/ (PairClearAll /\ UNCHANGED <<durVars, statVars, settingsVars, fmtVars, flight>>)

SpecPair == InitPair /\ [][NextPair]_vars

-----------------------------------------------------------------------------
(* The settings repository: the hook useUserSettings (src/types/auth.ts,   *)
(* lines 36-231), the table user_settings and the reminder service         *)
(* (src/services/notifications.ts, lines 58-102).                          *)
(*                                                                         *)
(* A call of the hook is a sequence of steps, one per await; an instance   *)
(* of the hook has at most one call in flight.  targetHours is kept in     *)
(* tenths of an hour, a reminder time as the characters of "HH:MM", a      *)
(* time stamp as the number of stamps taken before it.                     *)

Digits == <<"0", "1", "2", "3", "4", "5", "6", "7", "8", "9">>
\* Number(s) for a string of decimal digits
RECURSIVE Number(_)
Number(s) ==
    IF s = <<>> THEN 0
    ELSE Number(SubSeq(s, 1, Len(s) - 1)) * 10
         + ((CHOOSE n \in 1..10 : Digits[n] = s[Len(s)]) - 1)
\* String.prototype.split(sep) for a separator of one character
RECURSIVE split(_, _)
split(s, sep) ==
    LET at == {i \in 1..Len(s) : s[i] = sep}
    IN  IF at = {} THEN <<s>>
        ELSE LET i == CHOOSE j \in at : \A k \in at : j <= k
             IN  <<SubSeq(s, 1, i - 1)>> \o split(SubSeq(s, i + 1, Len(s)), sep)

\* toUserSettings: a row of user_settings as the app's record
toUserSettings(row) ==
    [id |-> row.id, userId |-> row.user_id, targetHours |-> row.target_hours,
     reminderEnabled |-> row.reminder_enabled, reminderTime |-> row.reminder_time,
     onboardingCompleted |-> row.onboarding_completed,
     createdAt |-> row.created_at, updatedAt |-> row.updated_at]

DEFAULT_SETTINGS_Reminding ==
    [targetHours |-> 80, reminderEnabled |-> TRUE,
     reminderTime |-> <<"2", "2", ":", "0", "0">>, onboardingCompleted |-> FALSE]
DEFAULT_SETTINGS ==
    [targetHours |-> 80, reminderEnabled |-> FALSE,
     reminderTime |-> <<"2", "2", ":", "0", "0">>, onboardingCompleted |-> FALSE]

\* .from('user_settings').select('*').eq('user_id', uid).single()
SettingsSelectSingle(uid, outcome) ==
    LET hit == {r \in settingsDb : r.user_id = uid}
    IN  CASE outcome = "ok" /\ Cardinality(hit) = 1 ->
                Answer(Val(CHOOSE r \in hit : TRUE), Null, settingsDb)
          [] outcome = "ok" /\ Cardinality(hit) # 1 ->
                Answer(Null, Val("PGRST116"), settingsDb)
          [] OTHER -> Answer(Null, Val("rejected"), settingsDb)

\* .insert({ user_id, target_hours, ... }).select().single(): the table gives
\* the row its id and its time stamps
SettingsInsertSingle(uid, d, outcome) ==
    LET row == [id |-> Cardinality(settingsDb) + 1, user_id |-> uid,
                target_hours |-> d.targetHours,
                reminder_enabled |-> d.reminderEnabled,
                reminder_time |-> d.reminderTime,
                onboarding_completed |-> d.onboardingCompleted,
                created_at |-> clock, updated_at |-> clock]
    IN  CASE outcome = "ok" -> Answer(Val(row), Null, settingsDb \cup {row})
          [] OTHER -> Answer(Null, Val("rejected"), settingsDb)

\* a row with the columns of dbUpdates that are set written over it
Written(r, u) ==
    [r EXCEPT
       !.target_hours = IF u.target_hours.t = "val" THEN u.target_hours.v ELSE @,
       !.reminder_enabled =
           IF u.reminder_enabled.t = "val" THEN u.reminder_enabled.v ELSE @,
       !.reminder_time = IF u.reminder_time.t = "val" THEN u.reminder_time.v ELSE @,
       !.onboarding_completed =
           IF u.onboarding_completed.t = "val" THEN u.onboarding_completed.v ELSE @,
       !.updated_at = IF u.updated_at.t = "val" THEN u.updated_at.v ELSE @]

\* .update(dbUpdates).eq('user_id', uid).select().single()
SettingsUpdateSingle(uid, u, outcome) ==
    LET hit == {r \in settingsDb : r.user_id = uid}
        table == (settingsDb \ hit) \cup {Written(r, u) : r \in hit}
    IN  CASE outcome = "ok" /\ Cardinality(hit) = 1 ->
                Answer(Val(Written(CHOOSE r \in hit : TRUE, u)), Null, table)
          [] outcome = "ok" /\ Cardinality(hit) # 1 ->
                Answer(Null, Val("PGRST116"), table)
          [] OTHER -> Answer(Null, Val("rejected"), settingsDb)

\* a call made while updateSettings handles the reminder: the function, its
\* caller and its arguments
Call(fn, by, args) == [fn |-> fn, by |-> by, args |-> args]

\* cancelBedtimeReminder, called by `by`, when the device's
\* cancelAllScheduledNotificationsAsync ends as `cancelled`: what is then
\* scheduled, whether the function throws, the calls made
cancelBedtimeReminder(by, cancelled) ==
    [scheduled |-> IF cancelled = "ok" THEN {} ELSE scheduled,
     threw |-> FALSE,
     calls |-> <<Call("cancelBedtimeReminder", by, <<>>),
                 Call("cancelAllScheduledNotificationsAsync",
                      "cancelBedtimeReminder", <<>>)>>]

\* scheduleBedtimeReminder(reminderTime, targetHours), called by `by`, when the
\* device's scheduleNotificationAsync ends as `added`
scheduleBedtimeReminderRethrows(reminderTime, targetHours, by, cancelled, added) ==
    LET c == cancelBedtimeReminder("scheduleBedtimeReminder", cancelled)
        parts == split(reminderTime, ":")
        hours == Number(parts[1])
        minutes == Number(parts[2])
        n == [hour |-> hours, minute |-> minutes, body |-> targetHours]
    IN  [scheduled |-> IF added = "ok" THEN c.scheduled \cup {n} ELSE c.scheduled,
         threw |-> added # "ok",
         calls |-> <<Call("scheduleBedtimeReminder", by, <<reminderTime, targetHours>>)>>
                   \o c.calls
                   \o <<Call("scheduleNotificationAsync", "scheduleBedtimeReminder",
                             <<hours, minutes, targetHours>>)>>]
scheduleBedtimeReminder(reminderTime, targetHours, by, cancelled, added) ==
    LET c == cancelBedtimeReminder("scheduleBedtimeReminder", cancelled)
        parts == split(reminderTime, ":")
        hours == Number(parts[1])
        minutes == Number(parts[2])
        n == [hour |-> hours, minute |-> minutes, body |-> targetHours]
    IN  [scheduled |-> IF added = "ok" THEN c.scheduled \cup {n} ELSE c.scheduled,
         threw |-> FALSE,
         calls |-> <<Call("scheduleBedtimeReminder", by, <<reminderTime, targetHours>>)>>
                   \o c.calls
                   \o <<Call("scheduleNotificationAsync", "scheduleBedtimeReminder",
                             <<hours, minutes, targetHours>>)>>]

\* an instance of the hook as constructed: its state (settings, loading,
\* error), where its call in flight stands (pc) with what that call holds
\* (req), and of its last call what it gave its caller (ret, "pending" while
\* the call is in flight), how its last call to the table ended (backend), the
\* argument of updateSettings (input, Null for a fetch), the reminder calls it
\* made (calls) and whether the device carried them out (reminder)
NewHook ==
    [settings |-> Null, loading |-> TRUE, error |-> NoError, pc |-> "idle",
     req |-> Null, ret |-> "new", backend |-> "none", input |-> Null,
     calls |-> <<>>, reminder |-> "none"]

\* what updateSettings is called with: the fields that are supplied
UpdateSettingsInput(targetHours, reminderEnabled, reminderTime, onboardingCompleted) ==
    [targetHours |-> targetHours, reminderEnabled |-> reminderEnabled,
     reminderTime |-> reminderTime, onboardingCompleted |-> onboardingCompleted]
\* completeOnboarding(targetHours, reminderEnabled, reminderTime): the
\* argument it calls updateSettings with
completeOnboarding(targetHours, reminderEnabled, reminderTime) ==
    UpdateSettingsInput(Val(targetHours), Val(reminderEnabled), Val(reminderTime),
                        Val(TRUE))
\* the calls tried: the three of the settings screen, a screen setting two
\* fields, and completeOnboarding
UpdateInputs ==
    { UpdateSettingsInput(Val(75), Undefined, Undefined, Undefined),
      UpdateSettingsInput(Undefined, Val(TRUE), Undefined, Undefined),
      UpdateSettingsInput(Undefined, Val(FALSE), Undefined, Undefined),
      UpdateSettingsInput(Undefined, Undefined, Val(<<"0", "7", ":", "3", "0">>),
                          Undefined),
      completeOnboarding(80, TRUE, <<"0", "7", ":", "3", "0">>) }

\* dbUpdates of updateSettings: a column is set when its field is not undefined
dbUpdatesWithDefaults(updates, stamp) ==
    [target_hours |->
        IF updates.targetHours # Undefined THEN updates.targetHours
        ELSE Val(DEFAULT_SETTINGS.targetHours),
     reminder_enabled |-> updates.reminderEnabled,
     reminder_time |-> updates.reminderTime,
     onboarding_completed |-> updates.onboardingCompleted,
     updated_at |-> Val(stamp)]
dbUpdates(updates, stamp) ==
    [target_hours |-> updates.targetHours,
     reminder_enabled |-> updates.reminderEnabled,
     reminder_time |-> updates.reminderTime,
     onboarding_completed |-> updates.onboardingCompleted,
     updated_at |-> Val(stamp)]

\* fetchSettings, up to its await of the select (the mount effect and refetch)
FetchSettings(i) ==
    /\ hooks[i].pc = "idle"
    /\ hooks' = [hooks EXCEPT ![i] =
           IF user = NoUser
           THEN [@ EXCEPT !.settings = Null, !.loading = FALSE, !.ret = "void",
                          !.backend = "none", !.input = Null, !.calls = <<>>,
                          !.reminder = "none"]
           ELSE [@ EXCEPT !.loading = TRUE, !.error = NoError, !.pc = "select",
                          !.ret = "pending", !.backend = "none", !.input = Null,
                          !.calls = <<>>, !.reminder = "none"]]
    /\ UNCHANGED <<settingsDb, scheduled, clock>>

\* fetchSettings from the answer of the select to the await of
\* createDefaultSettings, or to its end
FetchSelect(i) ==
    /\ hooks[i].pc = "select"
    /\ \E outcome \in Outcomes :
         LET r == SettingsSelectSingle(user, outcome)
         IN  hooks' = [hooks EXCEPT ![i] =
                 IF r.error = Val("PGRST116")
                 THEN [@ EXCEPT !.pc = "insert", !.backend = outcome]
                 ELSE IF r.error # Null
                 THEN [@ EXCEPT !.error = "Failed to load settings",
                                !.loading = FALSE, !.pc = "idle", !.ret = "fail",
                                !.backend = outcome]
                 ELSE [@ EXCEPT !.settings = Val(toUserSettings(r.data.v)),
                                !.loading = FALSE, !.pc = "idle", !.ret = "loaded",
                                !.backend = outcome]]
    /\ UNCHANGED <<settingsDb, scheduled, clock>>

\* createDefaultSettings and the end of fetchSettings.  A full table rejects
\* the insert.
createDefaultSettings(i) ==
    /\ hooks[i].pc = "insert"
    /\ \E outcome \in Outcomes :
         /\ (outcome = "ok" => Cardinality(settingsDb) < MaxRows)
         /\ LET r == SettingsInsertSingle(user, DEFAULT_SETTINGS, outcome)
                newSettings == IF user = NoUser \/ r.error # Null THEN Null
                               ELSE Val(toUserSettings(r.data.v))
            IN  /\ settingsDb' = IF user = NoUser THEN settingsDb ELSE r.db
                /\ hooks' = [hooks EXCEPT ![i] =
                       [@ EXCEPT !.settings = newSettings, !.loading = FALSE,
                                 !.pc = "idle",
                                 !.ret = IF newSettings = Null THEN "null"
                                         ELSE "created",
                                 !.backend = outcome]]
    /\ UNCHANGED <<scheduled, clock>>

\* updateSettings(updates), up to its await of the update
UpdateSettings(i) ==
    /\ hooks[i].pc = "idle"
    /\ clock < MaxStamps
    /\ \E updates \in UpdateInputs :
         IF user = NoUser \/ hooks[i].settings = Null
         THEN /\ hooks' = [hooks EXCEPT ![i] =
                     [@ EXCEPT !.ret = "false", !.backend = "none",
                               !.input = Val(updates), !.calls = <<>>,
                               !.reminder = "none"]]
              /\ UNCHANGED clock
         ELSE /\ hooks' = [hooks EXCEPT ![i] =
                     [@ EXCEPT !.pc = "write",
                               !.req = Val(dbUpdates(updates, clock + 1)),
                               !.ret = "pending", !.backend = "none",
                               !.input = Val(updates), !.calls = <<>>,
                               !.reminder = "none"]]
              /\ clock' = clock + 1
    /\ UNCHANGED <<settingsDb, scheduled>>

\* updateSettings from the answer of the update to its await of the reminder
\* service, or to its catch
UpdateWrite(i) ==
    /\ hooks[i].pc = "write"
    /\ \E outcome \in Outcomes :
         LET r == SettingsUpdateSingle(user, hooks[i].req.v, outcome)
         IN  /\ settingsDb' = r.db
             /\ hooks' = [hooks EXCEPT ![i] =
                    IF r.error # Null
                    THEN [@ EXCEPT !.error = "Failed to update settings",
                                   !.pc = "idle", !.req = Null, !.ret = "false",
                                   !.backend = r.error.v]
                    ELSE [@ EXCEPT !.settings = Val(toUserSettings(r.data.v)),
                                   !.pc = "notify",
                                   !.req = Val(toUserSettings(r.data.v)),
                                   !.backend = outcome]]
    /\ UNCHANGED <<scheduled, clock>>

\* the reminder service as updateSettings calls it for updatedSettings
handleNotificationAlwaysSchedules(updatedSettings, cancelled, added) ==
    scheduleBedtimeReminder(updatedSettings.reminderTime, updatedSettings.targetHours,
                            "updateSettings", cancelled, added)
handleNotification(updatedSettings, cancelled, added) ==
    IF updatedSettings.reminderEnabled
    THEN scheduleBedtimeReminder(updatedSettings.reminderTime,
                                 updatedSettings.targetHours,
                                 "updateSettings", cancelled, added)
    ELSE cancelBedtimeReminder("updateSettings", cancelled)

\* updateSettings from the reminder service's return to its end
UpdateNotify(i) ==
    /\ hooks[i].pc = "notify"
    /\ \E cancelled \in Outcomes, added \in Outcomes :
         /\ (added = "ok" \/ hooks[i].req.v.reminderEnabled)
         /\ LET n == handleNotification(hooks[i].req.v, cancelled, added)
            IN  /\ scheduled' = n.scheduled
                /\ hooks' = [hooks EXCEPT ![i] =
                       [@ EXCEPT !.pc = "idle", !.req = Null, !.calls = n.calls,
                                 !.reminder = IF cancelled = "ok" /\ added = "ok"
                                              THEN "ok" ELSE "failed",
                                 !.ret = IF n.threw THEN "false" ELSE "true",
                                 !.error = IF n.threw THEN "Failed to update settings"
                                           ELSE @]]
    /\ UNCHANGED <<settingsDb, clock>>

\* one instance of the hook, for a signed-out or a signed-in user
InitSettings ==
    /\ variant = "remote"
    /\ mounted = FALSE
    /\ user \in {NoUser, TheUser}
    /\ entries = <<>>
    /\ loading = TRUE
    /\ error = NoError
    /\ storage = Null
    /\ db = {}
    /\ nextId = 0
    /\ last = [op |-> "new", id |-> 0, res |-> "void", backend |-> "none"]
    /\ cleared = "no"
    /\ dBed = 0 /\ dWake = 0 /\ dRes = Undefined
    /\ now = 0 /\ tz = 0 /\ stats = Undefined
    /\ peer = NoPeer
    /\ settingsDb = {}
    /\ hooks = <<NewHook>>
    /\ scheduled = {}
    /\ clock = 0
    /\ NoFormat
    /\ flight = NoFlight

asideSettings == <<hookVars, durVars, statVars, peer, fmtVars, flight>>

NextSettings ==
    \/ ((\E i \in DOMAIN hooks : FetchSettings(i)) /\ UNCHANGED asideSettings)
    \/ ((\E i \in DOMAIN hooks : FetchSelect(i)) /\ UNCHANGED asideSettings)
    \/ ((\E i \in DOMAIN hooks : createDefaultSettings(i)) /\ UNCHANGED asideSettings)
    \/ ((\E i \in DOMAIN hooks : UpdateSettings(i)) /\ UNCHANGED asideSettings)
    \/ ((\E i \in DOMAIN hooks : UpdateWrite(i)) /\ UNCHANGED asideSettings)
    \/ ((\E i \in DOMAIN hooks : UpdateNotify(i)) /\ UNCHANGED asideSettings)

SpecSettings == InitSettings /\ [][NextSettings]_vars

\* two instances of the hook (two mounted screens) of a signed-in user, whose
\* calls interleave
InitSettingsRace ==
    /\ variant = "remote"
    /\ mounted = FALSE
    /\ user = TheUser
    /\ entries = <<>>
    /\ loading = TRUE
    /\ error = NoError
    /\ storage = Null
    /\ db = {}
    /\ nextId = 0
    /\ last = [op |-> "new", id |-> 0, res |-> "void", backend |-> "none"]
    /\ cleared = "no"
    /\ dBed = 0 /\ dWake = 0 /\ dRes = Undefined
    /\ now = 0 /\ tz = 0 /\ stats = Undefined
    /\ peer = NoPeer
    /\ settingsDb = {}
    /\ hooks = <<NewHook, NewHook>>
    /\ scheduled = {}
    /\ clock = 0
    /\ NoFormat
    /\ flight = NoFlight

SpecSettingsRace == InitSettingsRace /\ [][NextSettings]_vars

-----------------------------------------------------------------------------
(* One instance of useUserSettings whose calls of updateSettings overlap   *)
(* (SpecSettingsOverlap): hooks[1] is the instance, flight holds its calls *)
(* of updateSettings, each at one of its awaits: the update of the table   *)
(* ("write"), cancelBedtimeReminder called by updateSettings ("cancel"),   *)
(* scheduleBedtimeReminder at its await of cancelBedtimeReminder           *)
(* ("reschedule") and at its await of scheduleNotificationAsync ("add").   *)
(* The device's notification calls succeed.                                *)

\* the notification scheduleBedtimeReminder(reminderTime, targetHours) asks for
Trigger(reminderTime, targetHours) ==
    LET parts == split(reminderTime, ":")
    IN  [hour |-> Number(parts[1]), minute |-> Number(parts[2]), body |-> targetHours]

\* the call in slot k moves on to pc holding data, or ends
Moves(k, pc, data) ==
    flight' = [flight EXCEPT !.calls[k] = [@ EXCEPT !.pc = pc, !.data = data]]
Ends(k, ok) ==
    flight' = [flight EXCEPT !.calls[k] = NoCall, !.failed = @ \/ ~ok]

\* the mount effect: fetchSettings up to its await of the select
OverlapMount ==
    /\ hooks[1].ret = "new"
    /\ FetchSettings(1)
    /\ UNCHANGED flight

OverlapFetchSelect == FetchSelect(1) /\ UNCHANGED flight

OverlapCreateDefaultSettings == createDefaultSettings(1) /\ UNCHANGED flight

\* updateSettings(updates), up to its await of the update (without a user or
\* settings it returns false at once)
OverlapUpdateSettings ==
    /\ Free # {} /\ clock < MaxStamps
    /\ user # NoUser /\ hooks[1].settings # Null
    /\ \E updates \in UpdateInputs :
         flight' = [flight EXCEPT !.calls[Slot] =
                       [op |-> "updateSettings", pc |-> "write", id |-> 0,
                        seen |-> <<>>, data |-> dbUpdates(updates, clock + 1),
                        res |-> "pending"]]
    /\ clock' = clock + 1
    /\ UNCHANGED <<settingsDb, hooks, scheduled>>

\* updateSettings from the answer of the update to its await of the reminder
\* service, or to its catch
OverlapUpdateWrite ==
    \E k \in 1..MaxFlight, outcome \in Outcomes :
      /\ flight.calls[k].op = "updateSettings" /\ flight.calls[k].pc = "write"
      /\ LET r == SettingsUpdateSingle(user, flight.calls[k].data, outcome)
         IN  /\ settingsDb' = r.db
             /\ IF r.error # Null
                THEN /\ hooks' = [hooks EXCEPT ![1].error = "Failed to update settings",
                                               ![1].ret = "false"]
                     /\ Ends(k, FALSE)
                ELSE /\ hooks' = [hooks EXCEPT ![1].settings =
                                                   Val(toUserSettings(r.data.v))]
                     /\ Moves(k, IF toUserSettings(r.data.v).reminderEnabled
                                 THEN "reschedule" ELSE "cancel",
                              toUserSettings(r.data.v))
      /\ UNCHANGED <<scheduled, clock>>

\* cancelBedtimeReminder returns: to updateSettings, which returns true, or
\* to scheduleBedtimeReminder, which goes on to scheduleNotificationAsync
OverlapCancelled ==
    \E k \in 1..MaxFlight :
      /\ flight.calls[k].op = "updateSettings"
      /\ flight.calls[k].pc \in {"cancel", "reschedule"}
      /\ scheduled' = cancelBedtimeReminder(IF flight.calls[k].pc = "cancel"
                                            THEN "updateSettings"
                                            ELSE "scheduleBedtimeReminder",
                                            "ok").scheduled
      /\ IF flight.calls[k].pc = "cancel"
         THEN /\ Ends(k, TRUE)
              /\ hooks' = [hooks EXCEPT ![1].ret = "true", ![1].reminder = "ok"]
         ELSE /\ Moves(k, "add", flight.calls[k].data)
              /\ UNCHANGED hooks
      /\ UNCHANGED <<settingsDb, clock>>

\* scheduleNotificationAsync returns, scheduleBedtimeReminder returns the
\* identifier and updateSettings returns true
OverlapScheduled ==
    \E k \in 1..MaxFlight :
      /\ flight.calls[k].op = "updateSettings" /\ flight.calls[k].pc = "add"
      /\ scheduled' = scheduled \cup {Trigger(flight.calls[k].data.reminderTime,
                                              flight.calls[k].data.targetHours)}
      /\ Ends(k, TRUE)
      /\ hooks' = [hooks EXCEPT ![1].ret = "true", ![1].reminder = "ok"]
      /\ UNCHANGED <<settingsDb, clock>>

asideOverlap == <<hookVars, durVars, statVars, peer, fmtVars>>

NextSettingsOverlap ==
    \/ (OverlapMount /\ UNCHANGED asideOverlap)
    \/ (OverlapFetchSelect /\ UNCHANGED asideOverlap)
    \/ (OverlapCreateDefaultSettings /\ UNCHANGED asideOverlap)
    \/ (OverlapUpdateSettings /\ UNCHANGED asideOverlap)
    \/ (OverlapUpdateWrite /\ UNCHANGED asideOverlap)
    \/ (OverlapCancelled /\ UNCHANGED asideOverlap)
    \/ (OverlapScheduled /\ UNCHANGED asideOverlap)

SpecSettingsOverlap == InitSettings /\ [][NextSettingsOverlap]_vars

-----------------------------------------------------------------------------
(* formatDuration (useSleepStorage.ts, lines 39-47) on its own.  Its       *)
(* argument is kept in hundredths of an hour, its result as the characters *)
(* of the string.                                                          *)

\* String(n) for an integer n, as a template literal renders it
RECURSIVE NatString(_)
NatString(n) ==
    IF n < 10 THEN <<Digits[n + 1]>>
    ELSE NatString(n \div 10) \o <<Digits[(n % 10) + 1]>>
String(n) == IF n < 0 THEN <<"-">> \o NatString(0 - n) ELSE NatString(n)

formatDurationFloorMinutes(hours) ==
    LET h == hours \div 100
        m == ((hours - h * 100) * 60) \div 100
    IN  IF m = 0 THEN String(h) \o <<"h">>
        ELSE String(h) \o <<"h", " ">> \o String(m) \o <<"m">>
\* formatDuration: Math.floor is \div, Math.round the nearest integer
formatDuration(hours) ==
    LET h == hours \div 100
        m == RoundDiv((hours - h * 100) * 60, 100)
    IN  IF m = 0 THEN String(h) \o <<"h">>
        ELSE String(h) \o <<"h", " ">> \o String(m) \o <<"m">>

\* the durations tried: every hundredth of an hour from -2 h up
FmtHours == (0 - 200)..(MaxFmtHours * 100 + 99)

InitFmt ==
    /\ variant = "local"
    /\ mounted = FALSE
    /\ user = NoUser
    /\ entries = <<>>
    /\ loading = TRUE
    /\ error = NoError
    /\ storage = Null
    /\ db = {}
    /\ nextId = 0
    /\ last = [op |-> "new", id |-> 0, res |-> "void", backend |-> "none"]
    /\ cleared = "no"
    /\ dBed = 0 /\ dWake = 0 /\ dRes = Undefined
    /\ now = 0 /\ tz = 0 /\ stats = Undefined
    /\ peer = NoPeer
    /\ NoSettings
    /\ fHours \in FmtHours
    /\ fRes = Undefined
    /\ flight = NoFlight

CallFormatDuration ==
    /\ fRes = Undefined
    /\ fRes' = Val(formatDuration(fHours))
    /\ UNCHANGED fHours
    /\ UNCHANGED <<hookVars, durVars, statVars, peer, settingsVars, flight>>

NextFmt == CallFormatDuration

SpecFmt == InitFmt /\ [][NextFmt]_vars

-----------------------------------------------------------------------------
(* What the backend holds, as a set of app entries.                        *)

Backend ==
    IF variant = "local"
    THEN (IF storage.t = "val" THEN Range(parse(storage.v)) ELSE {})
    ELSE {toSleepEntry(r) : r \in db}
BackendIds == {e.id : e \in Backend}

Bed(e) == getTime(e.bedtime)
Wake(e) == getTime(e.wakeTime)

Mutations == {"add", "update", "delete", "clearAll"}

-----------------------------------------------------------------------------
(* Claims.                                                                 *)

\* C1: after any sequence of completed load, add, update, delete and clearAll
\* calls the snapshot is ordered by bedtime descending: each entry's bedtime is
\* >= that of the entry after it, also when add is given an older bedtime.
C1_SnapshotSortedDesc ==
    \A i \in 1..(Len(entries) - 1) : Bed(entries[i]) >= Bed(entries[i + 1])

\* C2: every entry of the snapshot has duration = calculateDuration of its own
\* stored bedtime and wakeTime; after a successful add, get(id) of the new id
\* gives such an entry, and so does get(id) after a successful update of an
\* entry of the snapshot.
C2_DurationDerived ==
    /\ \A e \in Range(entries) : e.duration = calculateDuration(Bed(e), Wake(e))
    /\ (last.op = "add" /\ last.res = "entry") =>
          /\ getEntry(last.id).t = "val"
          /\ getEntry(last.id).v.duration =
                calculateDuration(Bed(getEntry(last.id).v), Wake(getEntry(last.id).v))
C2_Witness ==
    /\ last.op = "update" /\ last.res = "entry"
    /\ \E e \in Range(entries) :
          e.id = last.id /\ Wake(e) < Bed(e) /\ e.duration = 80

\* C3: calculateDuration never returns a negative value, whatever the two
\* instants (also for a wake time more than 24 hours before the bedtime).
C3_DurationNonNegative == dRes.t = "val" => dRes.v >= 0

\* C4: for wakeTime >= bedtime calculateDuration is (wakeTime - bedtime) in
\* hours rounded to one decimal place (0 for equal instants); for wakeTime <
\* bedtime it is (wakeTime - bedtime) + 24 h rounded to one decimal place.
\* Rounded to one decimal: the result, in tenths of an hour, is within half a
\* tenth of the exact value.
C4_DurationRounded ==
    dRes.t = "val" =>
        LET exact == IF dWake >= dBed THEN dWake - dBed
                     ELSE (dWake - dBed) + 24 * HourMs
            tenth == HourMs \div 10
        IN  /\ 2 * (dRes.v * tenth - exact) <= tenth
            /\ 2 * (exact - dRes.v * tenth) <= tenth
            /\ (dWake = dBed => dRes.v = 0)
C4_Witness ==
    /\ dRes.t = "val"
    /\ dWake < dBed
    /\ dBed - dWake < 24 * HourMs
    /\ dRes.v = 120

\* C5: delete(id) of an id that does not exist (neither in the snapshot nor in
\* the backend) reports not-found ("false"), which differs from the report of
\* a deletion ("true"), and leaves the snapshot as it was, in both variants.
C5_DeleteMissingNotFound ==
    [][ (/\ last'.op = "delete"
         /\ last'.res # "unauth"
         /\ last'.id \notin Ids(entries)
         /\ last'.id \notin BackendIds)
        => (last'.res = "false" /\ entries' = entries) ]_vars

\* C6: update(id, ...) of an id that the backend does not hold, the backend
\* answering, reports not-found ("null"), which differs from the report of a
\* backend failure ("throw"), and leaves the snapshot and the backend as
\* they were.
C6_UpdateMissingNotFound ==
    [][ (/\ last'.op = "update"
         /\ last'.res # "unauth"
         /\ last'.backend # "rejected"
         /\ last'.id \notin BackendIds)
        => (last'.res = "null" /\ entries' = entries /\ Backend' = Backend) ]_vars

\* C7: when the backend call of an add, update, delete or clearAll fails, the
\* call reports the failure (it throws) and the snapshot is what it was
\* before; after a failed add the backend holds what it held, or that and one
\* record more.
C7_FailedMutationKeepsSnapshot ==
    [][ (last'.op \in Mutations /\ last'.backend = "rejected")
        => (/\ last'.res = "throw"
            /\ entries' = entries
            /\ (last'.op = "add" =>
                  /\ Backend \subseteq Backend'
                  /\ Cardinality(Backend' \ Backend) <= 1)) ]_vars
C7_Witness ==
    /\ last.op = "update" /\ last.backend = "rejected" /\ last.res = "throw"
    /\ last.id \in Ids(entries)
    /\ Len(entries) >= 2

\* C8: when load() fails (the backend fails or the stored text does not
\* parse), the snapshot keeps the entries it held, the error flag is set and
\* the loading flag is false after the load.
C8_FailedLoadKeepsSnapshot ==
    [][ (last'.op = "load" /\ last'.res = "fail")
        => (entries' = entries /\ error' # NoError /\ loading' = FALSE) ]_vars
C8_Witness ==
    /\ last.op = "load" /\ last.res = "fail"
    /\ entries # <<>>
    /\ error # NoError
    /\ loading = FALSE

\* C9: after a successful clearAll the snapshot is empty, and as long as no
\* add is called a load() gives an empty snapshot, however many entries there
\* were before.
C9_ClearedStaysEmpty ==
    /\ (last.op = "clearAll" /\ last.res = "void") => entries = <<>>
    /\ (cleared # "no" /\ last.op = "load") => entries = <<>>
C9_Witness ==
    /\ cleared = "nonempty"
    /\ last.op = "load" /\ last.res = "ok"
    /\ entries = <<>>

\* C10: getLatest() gives nothing when the snapshot is empty, and otherwise an
\* entry whose bedtime is the greatest bedtime of the snapshot.
C10_LatestIsMax ==
    IF entries = <<>> THEN getLatestEntry = Undefined
    ELSE /\ getLatestEntry.t = "val"
         /\ \A e \in Range(entries) : Bed(getLatestEntry.v) >= Bed(e)

-----------------------------------------------------------------------------
(* The weekly statistics (SpecStats).                                      *)

\* the local calendar day an instant falls in, and today's
LocalDay(t) == (t + tz) \div DayMs
Today == LocalDay(now)
\* the positions of the snapshot's entries whose bedtime lies in local day d
EntriesOfDay(d) == {i \in 1..Len(entries) : LocalDay(Bed(entries[i])) = d}
\* the sum of the durations of the entries at the positions I
RECURSIVE DurationOver(_)
DurationOver(I) ==
    IF I = {} THEN 0
    ELSE LET i == CHOOSE j \in I : TRUE
         IN  entries[i].duration + DurationOver(I \ {i})
\* the positions the aggregator's k-th bucket takes its entries from
Counted(k) ==
    {i \in 1..Len(entries) :
        entries[i] \in Range(dayEntries(entries, setDate(now, getDate(now) - loop[k])))}

\* C11: each of the seven buckets of getWeeklyStats is the sum of the durations
\* of exactly the snapshot's entries whose bedtime lies in that local calendar
\* day; an entry of the window [today-6, today] is counted in exactly one
\* bucket and an entry outside the window in none.
C11_BucketsPartitionWindow ==
    stats.t = "val" =>
        /\ \A k \in 1..7 :
               stats.v.dailyDurations[k] = DurationOver(EntriesOfDay(Today - 7 + k))
        /\ \A i \in 1..Len(entries) :
               LET d == LocalDay(Bed(entries[i]))
               IN  IF d >= Today - 6 /\ d <= Today
                   THEN Cardinality({k \in 1..7 : i \in Counted(k)}) = 1
                   ELSE \A k \in 1..7 : i \notin Counted(k)
C11_Witness ==
    /\ stats.t = "val"
    /\ \E i, j \in 1..Len(entries) :
           /\ LocalDay(Bed(entries[i])) = Today - 6
           /\ timeOfDay(Bed(entries[i])) = DayMs - 1
           /\ stats.v.dailyDurations[1] = entries[i].duration
           /\ LocalDay(Bed(entries[j])) = Today - 7
           /\ timeOfDay(Bed(entries[j])) = DayMs - 1

\* C12: getWeeklyStats gives exactly seven labels and seven values, for the
\* seven consecutive calendar days that end today, in chronological order:
\* position 1 is today-6 and position 7 is today.
C12_SevenDaysChronological ==
    stats.t = "val" =>
        /\ Len(stats.v.dayLabels) = 7
        /\ Len(stats.v.dailyDurations) = 7
        /\ \A k \in 1..7 :
               /\ stats.v.dayLabels[k] = WeekdayShort[((Today - 7 + k) % 7) + 1]
               /\ (stats.v.dailyDurations[k] # 0 => EntriesOfDay(Today - 7 + k) # {})
C12_Witness ==
    /\ stats.t = "val"
    /\ stats.v.dailyDurations[7] > 0
    /\ stats.v.dailyDurations[1] = 0
    /\ EntriesOfDay(Today) # {}
    /\ stats.v.dayLabels[7] # stats.v.dayLabels[1]

\* C13: the weekly average is the sum of the daily totals divided by the number
\* of days whose total is nonzero, rounded to one decimal, and 0 when no day
\* has a nonzero total.  (Rounded: within half a tenth of the quotient.)
C13_AverageOverNonzeroDays ==
    stats.t = "val" =>
        LET totals == stats.v.dailyDurations
            n == Cardinality({k \in 1..7 : totals[k] # 0})
            diff == stats.v.averageDuration * n - sumOf(totals)
        IN  IF n = 0 THEN stats.v.averageDuration = 0
            ELSE 2 * diff <= n /\ 0 - 2 * diff <= n

-----------------------------------------------------------------------------
(* The two variants side by side (SpecPair).                               *)

\* C15: given the same stored entries and the same sequence of load, add,
\* update, delete and clearAll calls against backends that do not fail, the
\* local and the remote hook return the same values and hold the same
\* snapshot: the same entries with the same fields (quality included) in the
\* same order.
C15_VariantsAgree ==
    /\ peer.entries = entries
    /\ peer.res = last.res

-----------------------------------------------------------------------------
(* The settings repository (SpecSettings, SpecSettingsRace).               *)

\* the rows of the signed-in user
UserRows == {r \in settingsDb : r.user_id = user}
\* the instance i is between two calls
Idle(i) == hooks[i].pc = "idle"
\* the reminder calls of a list that are calls of fn
CallsOf(calls, fn) == {k \in 1..Len(calls) : calls[k].fn = fn}

\* C16: a load for a signed-in user who has no record, with a backend that
\* accepts the insert, creates the record targetHours 8.0, reminderEnabled
\* false, reminderTime "22:00", onboardingCompleted false in the backend; that
\* record becomes the in-memory settings and the error flag stays unset.  (A
\* load that found no record ends without a record only when the insert was
\* rejected.)
C16_DefaultsCreated ==
    \A i \in DOMAIN hooks :
        /\ (Idle(i) /\ hooks[i].ret = "created") =>
               /\ hooks[i].settings.t = "val"
               /\ hooks[i].settings.v.targetHours = 80
               /\ hooks[i].settings.v.reminderEnabled = FALSE
               /\ hooks[i].settings.v.reminderTime = <<"2", "2", ":", "0", "0">>
               /\ hooks[i].settings.v.onboardingCompleted = FALSE
               /\ \E r \in UserRows : toUserSettings(r) = hooks[i].settings.v
               /\ hooks[i].error = NoError
               /\ hooks[i].loading = FALSE
        /\ (Idle(i) /\ hooks[i].ret = "null") => hooks[i].backend = "rejected"
C16_Witness ==
    /\ user = TheUser
    /\ Idle(1) /\ hooks[1].ret = "created" /\ hooks[1].backend = "ok"
    /\ Cardinality(UserRows) = 1

\* C17: once a load of the user's settings has completed with a record, the
\* backend holds exactly one settings record for that user, also when several
\* instances load while there is no record yet.
C17_OneRecordPerUser ==
    (\E i \in DOMAIN hooks : Idle(i) /\ hooks[i].ret \in {"loaded", "created"})
        => Cardinality(UserRows) = 1

\* the fields of the settings record that updateSettings can be given, each
\* with its column
Fields ==
    { <<"targetHours", "target_hours">>, <<"reminderEnabled", "reminder_enabled">>,
      <<"reminderTime", "reminder_time">>,
      <<"onboardingCompleted", "onboarding_completed">> }
\* the record st and the row r hold, for every field the input supplies, the
\* value supplied
HoldSupplied(in, st, r) ==
    \A f \in Fields :
        in[f[1]].t = "val" => (st[f[1]] = in[f[1]].v /\ r[f[2]] = in[f[1]].v)

\* C18: a settings update that succeeds changes, in the persisted and in the
\* in-memory record, only the fields its partial input supplies (to the values
\* supplied) and the updated-timestamp; every other field keeps its value.
C18_OnlySuppliedFieldsChange ==
    [][\A i \in DOMAIN hooks :
          (hooks[i].pc = "write" /\ hooks'[i].pc = "notify") =>
              LET in == hooks[i].input.v
                  old == hooks[i].settings.v
                  new == hooks'[i].settings.v
                  oldRow == CHOOSE r \in UserRows : TRUE
                  newRow == CHOOSE r \in {x \in settingsDb' : x.user_id = user} : TRUE
              IN  /\ HoldSupplied(in, new, newRow)
                  /\ \A f \in Fields :
                         in[f[1]].t # "val" =>
                             (new[f[1]] = old[f[1]] /\ newRow[f[2]] = oldRow[f[2]])
                  /\ new.id = old.id /\ newRow.id = oldRow.id
                  /\ new.userId = old.userId /\ newRow.user_id = oldRow.user_id
                  /\ new.createdAt = old.createdAt
                  /\ newRow.created_at = oldRow.created_at
                  /\ Cardinality(settingsDb') = Cardinality(settingsDb)]_vars
C18_Witness ==
    /\ Idle(1) /\ hooks[1].ret = "true"
    /\ hooks[1].input.v.targetHours = Undefined
    /\ hooks[1].input.v.reminderEnabled = Val(TRUE)
    /\ hooks[1].settings.v.targetHours = 75
    /\ hooks[1].settings.v.reminderEnabled = TRUE
    /\ \E r \in UserRows : r.target_hours = 75 /\ r.reminder_enabled = TRUE

\* C19 as stated: each successful settings update triggers exactly one
\* notification action: with the merged reminderEnabled true exactly one call
\* to schedule with (merged reminderTime, merged targetHours) and no call to
\* cancel-all; with it false exactly one call to cancel-all and no call to
\* schedule; never both within one update.
C19_ScheduleOrCancelNeverBoth ==
    \A i \in DOMAIN hooks :
        (Idle(i) /\ hooks[i].ret = "true") =>
            LET c == hooks[i].calls
                st == hooks[i].settings.v
                sched == CallsOf(c, "scheduleBedtimeReminder")
                canc == CallsOf(c, "cancelBedtimeReminder")
            IN  IF st.reminderEnabled
                THEN /\ Cardinality(sched) = 1
                     /\ \A k \in sched : c[k].args = <<st.reminderTime, st.targetHours>>
                     /\ canc = {}
                ELSE /\ Cardinality(canc) = 1
                     /\ sched = {}

\* C19 amended: each successful settings update makes exactly one call to the
\* reminder service itself: scheduleBedtimeReminder(merged reminderTime, merged
\* targetHours) when the merged reminderEnabled is true, cancelBedtimeReminder
\* when it is false.  scheduleBedtimeReminder in turn calls
\* cancelBedtimeReminder once, before it schedules: an enabling update runs
\* cancel-all and then schedule, a disabling one only cancel-all.
C19_OneDirectCall ==
    \A i \in DOMAIN hooks :
        (Idle(i) /\ hooks[i].ret = "true") =>
            LET c == hooks[i].calls
                st == hooks[i].settings.v
                direct == {k \in 1..Len(c) : c[k].by = "updateSettings"}
                sched == CallsOf(c, "scheduleBedtimeReminder")
                canc == CallsOf(c, "cancelBedtimeReminder")
                osAdd == CallsOf(c, "scheduleNotificationAsync")
                osCancel == CallsOf(c, "cancelAllScheduledNotificationsAsync")
            IN  /\ direct = {1}
                /\ Cardinality(canc) = 1 /\ Cardinality(osCancel) = 1
                /\ IF st.reminderEnabled
                   THEN /\ c[1].fn = "scheduleBedtimeReminder"
                        /\ c[1].args = <<st.reminderTime, st.targetHours>>
                        /\ sched = {1}
                        /\ \A k \in canc : c[k].by = "scheduleBedtimeReminder"
                        /\ Cardinality(osAdd) = 1
                        /\ \A k \in osAdd, j \in osCancel : j < k
                   ELSE /\ c[1].fn = "cancelBedtimeReminder"
                        /\ sched = {} /\ osAdd = {}
C19_Witness ==
    /\ Idle(1) /\ hooks[1].ret = "true"
    /\ hooks[1].settings.v.reminderEnabled
    /\ hooks[1].settings.v.reminderTime = <<"0", "7", ":", "3", "0">>
    /\ hooks[1].settings.v.targetHours = 75
    /\ [hour |-> 7, minute |-> 30, body |-> 75] \in scheduled

\* C20: when the backend write of a settings update succeeds, the update
\* reports success and the persisted and the in-memory settings hold the
\* updated values, also when scheduling or cancelling the reminder fails.
C20_ReminderFailureKeepsUpdate ==
    \A i \in DOMAIN hooks :
        (Idle(i) /\ hooks[i].input # Null /\ hooks[i].backend = "ok") =>
            /\ hooks[i].ret = "true"
            /\ hooks[i].settings.t = "val"
            /\ \E r \in UserRows :
                   /\ toUserSettings(r) = hooks[i].settings.v
                   /\ HoldSupplied(hooks[i].input.v, hooks[i].settings.v, r)
C20_Witness ==
    /\ Idle(1) /\ hooks[1].ret = "true" /\ hooks[1].reminder = "failed"
    /\ hooks[1].input.v.reminderEnabled = Val(TRUE)
    /\ hooks[1].settings.v.reminderEnabled
    /\ scheduled = {}

\* C21: every failing operation of the settings repository is reported to its
\* caller: a load that ends without an in-memory record for a signed-in user
\* (also when creating the default record failed) raises the error flag, and
\* an update whose backend write fails returns failure with the error flag
\* raised, never silently.
C21_SettingsFailuresReported ==
    \A i \in DOMAIN hooks :
        /\ (/\ Idle(i) /\ user # NoUser
            /\ hooks[i].ret \in {"fail", "null", "loaded", "created"}
            /\ hooks[i].settings = Null)
               => hooks[i].error # NoError
        /\ (Idle(i) /\ hooks[i].input # Null /\ hooks[i].backend \in {"rejected", "PGRST116"})
               => (hooks[i].ret = "false" /\ hooks[i].error # NoError)

-----------------------------------------------------------------------------
(* The entry hooks, each call running to completion (Spec), continued.     *)

\* C22: while no user is signed in, add, update, delete and clearAll of the
\* remote hook each fail with an error and send no request to the backend:
\* the backend's records (and the snapshot) are unchanged.
C22_UnauthenticatedMutationsFail ==
    [][(/\ variant = "remote" /\ user = NoUser /\ user' = NoUser
        /\ last' # last /\ last'.op \in Mutations)
           => /\ last'.res = "unauth"
              /\ last'.backend = "none"
              /\ db' = db
              /\ entries' = entries]_vars
C22_Witness ==
    /\ variant = "remote" /\ user = NoUser
    /\ last.op \in Mutations /\ last.res = "unauth"
    /\ db # {}

-----------------------------------------------------------------------------
(* formatDuration (SpecFmt).                                               *)

\* C25: formatDuration(hours) renders the integer hour part, then the
\* remainder in minutes rounded to the nearest minute, and leaves the minutes
\* out when the rounded remainder is 0: 8.0 gives "8h", 7.5 gives "7h 30m",
\* 0.0 gives "0h"; for a multiple of 0.1 h the minutes part is below 60.
C25_FormatDuration ==
    fRes.t = "val" =>
        LET h == fHours \div 100
            rem == (fHours - h * 100) * 60
        IN  /\ \E m \in 0..60 :
                  /\ 2 * (m * 100 - rem) <= 100 /\ 2 * (rem - m * 100) <= 100
                  /\ fRes.v = IF m = 0 THEN String(h) \o <<"h">>
                              ELSE String(h) \o <<"h", " ">> \o String(m) \o <<"m">>
                  /\ (fHours % 10 = 0 => m < 60)
            /\ (fHours = 800 => fRes.v = <<"8", "h">>)
            /\ (fHours = 750 => fRes.v = <<"7", "h", " ", "3", "0", "m">>)
            /\ (fHours = 0 => fRes.v = <<"0", "h">>)
C25_Witness ==
    /\ fHours = 750
    /\ fRes = Val(<<"7", "h", " ", "3", "0", "m">>)

-----------------------------------------------------------------------------
(* The sleep-detail screen (SpecDetail).                                   *)

\* the quality of the entry id in a snapshot, and in the backend of a variant
QualityIn(s, id) == s[findIndex(s, id)].quality
StoredQuality(v, st, table, id) ==
    IF v = "local" THEN QualityIn(parse(st.v), id)
    ELSE NumOr((CHOOSE r \in table : r.id = id).quality, Undefined)

\* C30: saving an edit from the sleep-detail screen, which calls update with
\* id, bedtime, wakeTime and note only, leaves the quality rating of that
\* entry unchanged in the backend record and in the snapshot.
C30_DetailSaveKeepsQuality ==
    [][(last'.op = "handleSave" /\ last'.res = "entry") =>
          /\ QualityIn(entries', last'.id) = QualityIn(entries, last'.id)
          /\ StoredQuality(variant, storage', db', last'.id)
                 = StoredQuality(variant, storage, db, last'.id)]_vars

-----------------------------------------------------------------------------
(* Calls that overlap (SpecRace).                                          *)

\* no call of the instance waits for its backend
Quiet(f) == \A k \in 1..MaxFlight : f.calls[k].pc = "idle"

\* the entries the stored text holds
Stored(st) == IF st.t = "val" THEN Range(parse(st.v)) ELSE {}

\* C23: once no user is signed in and the sign-out effect has run, the
\* snapshot is empty and stays empty until a user signs in again, also when a
\* load or mutation that started before the sign-out completes after it.
C23_SignedOutSnapshotEmpty ==
    (variant = "remote" /\ mounted /\ user = NoUser) => entries = <<>>

\* C24: when loads and mutations overlap, the snapshot after all of them have
\* completed is the one written by the call that completed last, computed
\* from what that call saw when it was made, with nothing of the results of
\* the others merged in.
C24_LastCompletedWins ==
    [][\A k \in 1..MaxFlight :
          (/\ flight.calls[k].pc = "sent"
           /\ flight'.calls[k].pc = "idle"
           /\ flight.calls[k].res \notin {"fail", "throw"}
           /\ Quiet(flight'))
          => entries' = IF flight.calls[k].op = "load" THEN flight.calls[k].data
                        ELSE SetEntriesFromCallTime(flight.calls[k])]_vars

\* C26: in the local variant a successful add removes no persisted entry: the
\* stored collection after it is the stored collection before it plus the new
\* entry, also when the mount-time load has not completed or another
\* mutation is in flight.
C26_AddKeepsPersisted ==
    [][\A k \in 1..MaxFlight :
          (/\ variant = "local"
           /\ flight.calls[k].pc = "idle"
           /\ flight'.calls[k].op = "add"
           /\ flight'.calls[k].res = "entry")
          => Stored(storage') = Stored(storage) \cup {flight'.calls[k].data[1]}]_vars

\* C27: the snapshot of the remote variant never contains two entries with
\* the same id, however a load and an add interleave.
C27_NoDuplicateIds ==
    variant = "remote" =>
        \A i, j \in 1..Len(entries) : i # j => entries[i].id # entries[j].id

\* C28: in the remote variant, once every load and mutation of the instance
\* has completed and none met a backend error, the ids in the snapshot are
\* the ids the backend holds for the current user.
C28_SnapshotIdsAreBackendIds ==
    (/\ variant = "remote" /\ mounted /\ user # NoUser
     /\ Quiet(flight) /\ ~flight.failed)
    => Ids(entries) = {r.id : r \in {x \in db : x.user_id = user}}

-----------------------------------------------------------------------------
(* Overlapping calls of updateSettings (SpecSettingsOverlap).              *)

\* C29: whenever no update of the settings is in flight (the notification
\* service never failing), at most one bedtime reminder is scheduled, and
\* once an update has succeeded a reminder is scheduled exactly when the
\* in-memory settings have reminderEnabled, at the settings' reminderTime;
\* also when two updates overlap.
C29_ReminderFollowsSettings ==
    Quiet(flight) =>
        /\ Cardinality(scheduled) <= 1
        /\ hooks[1].reminder = "ok" =>
             /\ (scheduled # {}) = hooks[1].settings.v.reminderEnabled
             /\ \A n \in scheduled :
                  <<n.hour, n.minute>> =
                      <<Trigger(hooks[1].settings.v.reminderTime, 0).hour,
                        Trigger(hooks[1].settings.v.reminderTime, 0).minute>>

=============================================================================
